---- MODULE Spec2Model ----
(***************************************************************************)
(* Finite-difference stencil engines of wave_billiard.c, schrodinger.c and *)
(* wave_3d.c: the domain mask, the field buffers, the time step            *)
(* (evolve_wave / evolve_wave_half) and the normaliser (compute_variance,  *)
(* renormalise_field).                                                     *)
(*                                                                         *)
(* Field values are C doubles.  They are modelled by exact rationals       *)
(* <<n, d>> (d > 0, lowest terms); <<0, 0>> stands for a non-finite        *)
(* result (a division by zero: inf or nan) and <<0, -1>> for the           *)
(* indeterminate content of memory that malloc returned and nobody wrote.  *)
(* Both markers propagate through arithmetic.  The stencil and the          *)
(* normaliser are computed exactly; the accumulation phi += ... of          *)
(* add_drop_to_wave is rounded to MantBits significant bits, as a double    *)
(* addition is rounded to 53.                                               *)
(***************************************************************************)
EXTENDS Integers, FiniteSets, Sequences, TLC

\* Lattice dimensions (640x360, 720x720 and 1280x720 in the sources).
NX == 4
NY == 4
\* Number of evolve_wave calls a behaviour may make.
MaxSteps == 2
\* Largest number of cells by which a mask differs from all-inside or all-outside.
MaxHoles == 1
\* Number of successive scale computations between two evolve_wave calls.
MaxScale == 2
\* Bits of the significand the sums of add_drop_to_wave are rounded to (53 in a double).
MantBits == 3
\* Number of successive add_drop_to_wave calls.
MaxDrops == 2
\* Worker threads of the omp loops ("export OMP_NUM_THREADS=2").
NTHREADS == 2

Rows == 0 .. (NX - 1)
Cols == 0 .. (NY - 1)
Cells == Rows \X Cols

----------------------------------------------------------------------------
(* double arithmetic *)

NaN == <<0, 0>>
Undef == <<0, -1>>

IsFin(a) == a[2] > 0

Abs(n) == IF n < 0 THEN -n ELSE n

RECURSIVE GCD(_, _)
GCD(a, b) == IF b = 0 THEN a ELSE GCD(b, a % b)

RNorm(n, d) ==
    LET g == GCD(Abs(n), Abs(d))
    IN  IF d > 0 THEN <<n \div g, d \div g>> ELSE <<(-n) \div g, (-d) \div g>>

R(n) == <<n, 1>>
Zero == <<0, 1>>
One == <<1, 1>>

\* the result of an operation on operands a, b one of which is no number
Bad(a, b) == IF a = Undef \/ b = Undef THEN Undef ELSE NaN

RAdd(a, b) == IF IsFin(a) /\ IsFin(b)
              THEN LET g == GCD(a[2], b[2])
                   IN  RNorm(a[1] * (b[2] \div g) + b[1] * (a[2] \div g), a[2] * (b[2] \div g))
              ELSE Bad(a, b)
RNeg(a) == IF IsFin(a) THEN <<-a[1], a[2]>> ELSE a
RSub(a, b) == RAdd(a, RNeg(b))
RMul(a, b) == IF IsFin(a) /\ IsFin(b) THEN RNorm(a[1] * b[1], a[2] * b[2])
              ELSE Bad(a, b)
RDiv(a, b) == IF IsFin(a) /\ IsFin(b)
              THEN IF b[1] = 0 THEN NaN ELSE RNorm(a[1] * b[2], a[2] * b[1])
              ELSE Bad(a, b)
\* a > b on doubles: false when an operand is not a number
RGt(a, b) == IsFin(a) /\ IsFin(b) /\ a[1] * b[2] > b[1] * a[2]
RLt(a, b) == RGt(b, a)

\* integer square root of a perfect square, -1 otherwise
RECURSIVE SqrtSearch(_, _, _)
\* the largest r in lo .. hi with r * r <= n
SqrtSearch(n, lo, hi) ==
    IF lo >= hi THEN lo
    ELSE LET mid == (lo + hi + 1) \div 2
         IN  IF mid * mid <= n THEN SqrtSearch(n, mid, hi)
             ELSE SqrtSearch(n, lo, mid - 1)
\* the whole root of n, or -1 when n has none
ISqrt(n) ==
    LET r == SqrtSearch(n, 0, IF n < 46340 THEN n ELSE 46340)
    IN  IF r * r = n THEN r ELSE -1
HasSqrt(a) == IsFin(a) /\ a[1] >= 0 /\ ISqrt(a[1]) >= 0 /\ ISqrt(a[2]) >= 0
\* sqrt() on the rationals that have a rational root
RSqrt(a) == IF HasSqrt(a) THEN <<ISqrt(a[1]), ISqrt(a[2])>> ELSE Bad(a, a)

\* the % operator of C on int: the result has the sign of the dividend
CMod(a, b) == IF a >= 0 THEN a % b ELSE -((-a) % b)

\* rounding of a double operation, to MantBits significant bits, ties to even
RECURSIVE Pow2(_)
Pow2(k) == IF k = 0 THEN 1 ELSE 2 * Pow2(k - 1)
RAbs(a) == IF IsFin(a) /\ a[1] < 0 THEN RNeg(a) ELSE a
\* a times 2^k
RECURSIVE FScale(_, _)
FScale(a, k) == IF k = 0 THEN a
                ELSE IF k > 0 THEN FScale(RMul(a, R(2)), k - 1)
                ELSE FScale(RMul(a, <<1, 2>>), k + 1)
\* the exponent e that brings a > 0 into 2^(MantBits-1) <= a / 2^e < 2^MantBits
RECURSIVE FExp(_, _)
FExp(a, e) == IF ~RLt(a, R(Pow2(MantBits))) THEN FExp(RMul(a, <<1, 2>>), e + 1)
              ELSE IF RLt(a, R(Pow2(MantBits - 1))) THEN FExp(RMul(a, R(2)), e - 1)
              ELSE e
\* the whole number nearest to a >= 0, the even one of two equally near
RoundEven(a) ==
    LET q == a[1] \div a[2]
        twice == 2 * (a[1] - q * a[2])
    IN  IF twice > a[2] THEN q + 1
        ELSE IF twice < a[2] THEN q
        ELSE IF q % 2 = 0 THEN q ELSE q + 1
FRound(v) ==
    IF ~IsFin(v) \/ v[1] = 0 THEN v
    ELSE LET e == FExp(RAbs(v), 0)
             r == FScale(R(RoundEven(FScale(RAbs(v), -e))), e)
         IN  IF v[1] < 0 THEN RNeg(r) ELSE r
\* a + b as the machine computes it
FAdd(a, b) == FRound(RAdd(a, b))

----------------------------------------------------------------------------
(* state *)

VARIABLES
    prog,      \* which program runs: "wave_billiard", "schrodinger", "wave_3d"
    cfg,       \* the program's #define parameters
    xy_in,     \* domain mask, 0 = outside
    phi, psi,  \* field buffers
    phi_tmp, psi_tmp,   \* scratch buffers of the two-half-step programs
    tc, tcc, tgamma,    \* coefficient tables of wave_3d.c
    time,      \* static long time of wave_3d.c evolve_wave_half
    pc,        \* position: "idle", "evolve", "half1", "edges1", "ret1", "half2", "edges2"
    rows,      \* rows the running omp loop has finished
    nsteps,    \* evolve_wave calls started
    pre,       \* the four buffers as they were when the last micro-step or scaling began
    rd, wr,    \* <<array, cell>> pairs the running micro-step has read / written
    stale,     \* stencil reads that hit a pair the micro-step had already written
    var,       \* last result of compute_variance
    counted,   \* cells the last compute_variance summed
    scaled,    \* cells the last renormalise_field divided
    nscale,    \* scale computations since the last evolve_wave
    apc,       \* position of animation(): "prescale", "firstdraw", "scale", "draw",
               \* "evolve", "free", "returned", "crashed"; "drop" in the add_drop harness,
               \* "index" where only the array indices are followed
    frame,     \* loop counter i of animation()
    batch,     \* loop counter j of the evolve_wave calls of one frame
    drawn,     \* value of nsteps when the field was last drawn, -1 before the first draw
    measured,  \* value of nsteps at the last scale computation, -1 before the first
    freed,     \* for every buffer the number of free() calls made on it
    junk,      \* what the index variables of schrodinger.c hold when no branch set them,
               \* and sample_left, sample_right of wave_3d.c, which nothing assigns
    drops,     \* the add_drop_to_wave calls made, as <<factor, centre>>
    series     \* the values appended to wave_left.dat and wave_right.dat, one pair
               \* per sampling

vars == <<prog, cfg, xy_in, phi, psi, phi_tmp, psi_tmp, tc, tcc, tgamma, time,
          pc, rows, nsteps, pre, rd, wr, stale, var, counted, scaled, nscale,
          apc, frame, batch, drawn, measured, freed, junk, drops, series>>

bufs == [phi |-> phi, psi |-> psi, phi_tmp |-> phi_tmp, psi_tmp |-> psi_tmp]

\* the state a pass of the stencil works on: the arrays of doubles it is handed
\* and the record of its accesses
Pass == [phi |-> phi, psi |-> psi, phi_tmp |-> phi_tmp, psi_tmp |-> psi_tmp,
         tc |-> tc, tcc |-> tcc, tgamma |-> tgamma,
         rd |-> rd, wr |-> wr, stale |-> stale]

----------------------------------------------------------------------------
(* parameters *)

\* boundary-condition selectors B_COND
BC_DIRICHLET == "BC_DIRICHLET"
BC_PERIODIC == "BC_PERIODIC"
BC_ABSORBING == "BC_ABSORBING"
BC_VPER_HABS == "BC_VPER_HABS"

\* physical constants: an undamped and a damped choice
Undamped ==
    [COURANT |-> <<1, 2>>, COURANTB |-> <<1, 4>>, GAMMA |-> Zero, GAMMAB |-> Zero,
     KAPPA |-> Zero, GAMMA_SIDES |-> Zero, GAMMA_TOPBOT |-> Zero,
     KAPPA_SIDES |-> Zero, KAPPA_TOPBOT |-> Zero,
     intstep |-> <<1, 2>>, intstep1 |-> <<1, 2>>]
Damped ==
    [COURANT |-> <<1, 2>>, COURANTB |-> R(1), GAMMA |-> <<1, 4>>, GAMMAB |-> <<1, 2>>,
     KAPPA |-> <<1, 4>>, GAMMA_SIDES |-> <<3, 4>>, GAMMA_TOPBOT |-> R(1),
     KAPPA_SIDES |-> <<1, 2>>, KAPPA_TOPBOT |-> <<3, 4>>,
     intstep |-> <<1, 4>>, intstep1 |-> <<1, 2>>]

\* whole-number constants, so that fields stay whole numbers
Whole ==
    [COURANT |-> R(1), COURANTB |-> R(2), GAMMA |-> R(2), GAMMAB |-> R(3),
     KAPPA |-> R(1), GAMMA_SIDES |-> R(2), GAMMA_TOPBOT |-> R(3),
     KAPPA_SIDES |-> R(1), KAPPA_TOPBOT |-> R(2),
     intstep |-> R(1), intstep1 |-> R(2)]

VMAX == R(10)

Flags(b, two, osc, floor, scale) ==
    [B_COND |-> b, TWOSPEEDS |-> two, OSCILLATE_LEFT |-> osc, FLOOR |-> floor,
     SCALE |-> scale]

Cfg(phys, flags) == phys @@ flags

\* wave_billiard.c: the wrap is built in, the only switch is FLOOR.  The
\* squared Courant number 1/4 is run on the 4 x 4 grid only: in place the
\* denominators grow with every cell of the pass.
ConfigsWB ==
    (IF NX = 4 /\ NY = 4
     THEN { Cfg(Undamped, Flags(BC_PERIODIC, FALSE, FALSE, FALSE, FALSE)) }
     ELSE {})
    \cup { Cfg(Whole, Flags(BC_PERIODIC, FALSE, FALSE, TRUE, TRUE)) }

----------------------------------------------------------------------------
(* masks and initial fields *)

\* cells where a mask may deviate: two corners, an edge cell, two bulk cells
Probes == { <<0, 0>>, <<NX - 1, NY - 1>>, <<0, 1>>, <<1, 1>>, <<2, 2>> }

RECURSIVE SetsUpTo(_)
SetsUpTo(k) == IF k = 0 THEN {{}}
               ELSE LET P == SetsUpTo(k - 1) IN P \cup { h \cup {c} : h \in P, c \in Probes }
Holes == SetsUpTo(MaxHoles)
Masks == { [c \in Cells |-> IF c \in h THEN 0 ELSE 1] : h \in Holes }
         \cup { [c \in Cells |-> IF c \in h THEN 1 ELSE 0] : h \in Holes }

Fill(v) == [c \in Cells |-> v]
Impulse(c0, v) == [c \in Cells |-> IF c = c0 THEN v ELSE Zero]
\* a packet with a different value in every cell
Ramp == [c \in Cells |-> R(1 + c[1] + NX * c[2])]
Ramp2 == [c \in Cells |-> R(NX * NY - c[1] - NX * c[2])]
Packets == { Impulse(<<2, 2>>, One), Ramp }
\* a field of modulus 5 in every cell: sides of the 3-4-5 triangle
Tri == << <<3, 4>>, <<4, 3>>, <<5, 0>>, <<0, 5>>, <<-3, 4>>, <<4, -3>> >>
TriPhi == [c \in Cells |-> R(Tri[1 + ((c[1] + NX * c[2]) % 6)][1])]
TriPsi == [c \in Cells |-> R(Tri[1 + ((c[1] + NX * c[2]) % 6)][2])]
\* real and imaginary part of the initial wave function
Packets2 == { <<Impulse(<<2, 2>>, One), Fill(Zero)>>, <<TriPhi, TriPsi>>, <<Ramp, Ramp2>> }
Masked(f) == [c \in Cells |-> IF xy_in[c] # 0 THEN f[c] ELSE Zero]

----------------------------------------------------------------------------
(* the omp loops: schedule(static) over NTHREADS threads *)

\* first and one-past-last row of the chunk holding row i, loop from lo to hi-1
Chunk(n) == (n + NTHREADS - 1) \div NTHREADS
ChunkStart(i, lo, n) == lo + ((i - lo) \div Chunk(n)) * Chunk(n)
\* a thread runs the rows of its chunk in ascending order
Ready(i, lo, n) == i \notin rows /\ (i = ChunkStart(i, lo, n) \/ (i - 1) \in rows)

----------------------------------------------------------------------------
(* wave_billiard.c: evolve_wave, one row of the omp loop, in place *)

Acc(s, reads, writes) ==
    [s EXCEPT !.stale = @ \cup (reads \cap s.wr),
              !.rd = @ \cup reads,
              !.wr = @ \cup writes]

\* if (FLOOR) clamp to [-VMAX, VMAX]
Clamp(v) == IF RGt(v, VMAX) THEN VMAX ELSE IF RLt(v, RNeg(VMAX)) THEN RNeg(VMAX) ELSE v
Floor(v) == IF cfg.FLOOR THEN Clamp(v) ELSE v

\* a forward step that forgets the previous field
LeapfrogOneLevel(x, y, cc, delta, kappa, gamma) ==
    RSub(RSub(RAdd(x, RMul(cc, delta)), RMul(kappa, x)), RMul(gamma, RSub(x, y)))
\* new phi of the leapfrog recurrence
Leapfrog(x, y, cc, delta, kappa, gamma) ==
    RSub(RSub(RAdd(RAdd(RNeg(y), RMul(R(2), x)), RMul(cc, delta)), RMul(kappa, x)),
         RMul(gamma, RSub(x, y)))

\* sum of four values minus 4 times x
Laplace4(f, a, b, c, d, x) ==
    RSub(RAdd(RAdd(RAdd(f[a], f[b]), f[c]), f[d]), RMul(R(4), x))

\* an index that stops at the last row instead of wrapping
PlusNoWrap(i, n) == IF i + 1 = n THEN i ELSE i + 1
\* indices of the periodic wrap
Plus(i, n) == CMod(i + 1, n)
\* the C remainder of i - 1 without the correction of a negative result
MinusNoFix(i, n) == CMod(i - 1, n)
Minus(i, n) == IF CMod(i - 1, n) < 0 THEN CMod(i - 1, n) + n ELSE CMod(i - 1, n)

Put(s, c, ph, nphi, ps, npsi, reads) ==
    [Acc(s, reads, { <<ph, c>>, <<ps, c>> })
        EXCEPT ![ph][c] = nphi, ![ps][c] = npsi]

wb_update(s, c, ip, im, jp, jm) ==
    Put(s, c,
        "phi", Floor(Leapfrog(s.phi[c], s.psi[c], RMul(cfg.COURANT, cfg.COURANT),
                              Laplace4(s.phi, <<ip, c[2]>>, <<im, c[2]>>, <<c[1], jp>>,
                                       <<c[1], jm>>, s.phi[c]),
                              cfg.KAPPA, cfg.GAMMA)),
        "psi", Floor(s.phi[c]),
        { <<"phi", <<ip, c[2]>> >>, <<"phi", <<im, c[2]>> >>, <<"phi", <<c[1], jp>> >>,
          <<"phi", <<c[1], jm>> >>, <<"phi", c>>, <<"psi", c>> })

wb_cell(s, i, j) ==
    IF xy_in[<<i, j>>] # 0
    THEN wb_update(s, <<i, j>>, Plus(i, NX), Minus(i, NX), Plus(j, NY), Minus(j, NY))
    ELSE s

RECURSIVE wb_row(_, _, _)
wb_row(s, i, j) == IF j = NY THEN s ELSE wb_row(wb_cell(s, i, j), i, j + 1)

----------------------------------------------------------------------------
(* schrodinger.c: evolve_wave_half, one row of the omp loop *)

\* the buffers a half-step reads and writes: evolve_wave swaps them
\* a first half-step handed the table tcc in the place of psi_tmp
Half1_into_tcc == [phi_in |-> "phi", psi_in |-> "psi", phi_out |-> "phi_tmp", psi_out |-> "tcc"]
Half1 == [phi_in |-> "phi", psi_in |-> "psi", phi_out |-> "phi_tmp", psi_out |-> "psi_tmp"]
Half2 == [phi_in |-> "phi_tmp", psi_in |-> "psi_tmp", phi_out |-> "phi", psi_out |-> "psi"]
Bufs(p) == IF p \in {"half1", "edges1", "ret1"} THEN Half1 ELSE Half2

\* indices clamped into the grid
PlusClamp(i, n) == IF i + 1 = n THEN n - 1 ELSE i + 1
\* an index mirrored at the lower end of the grid
MinusMirror(i) == IF i - 1 = -1 THEN 1 ELSE i - 1
MinusClamp(i) == IF i - 1 = -1 THEN 0 ELSE i - 1

\* the selectors the index branches of evolve_wave_half know
sch_handled == {BC_DIRICHLET, BC_ABSORBING, BC_PERIODIC}
\* what iplus, iminus, jplus, jminus may hold when no branch assigned them: an
\* index inside the arrays, or one outside (Wild), whose use is a fault
Wild == -1
Junk == {0, 1, Wild}

sch_iplus(i) == IF cfg.B_COND \in {BC_DIRICHLET, BC_ABSORBING} THEN PlusClamp(i, NX)
                ELSE IF cfg.B_COND = BC_PERIODIC THEN Plus(i, NX) ELSE junk
sch_iminus(i) == IF cfg.B_COND \in {BC_DIRICHLET, BC_ABSORBING} THEN MinusClamp(i)
                 ELSE IF cfg.B_COND = BC_PERIODIC THEN Minus(i, NX) ELSE junk
sch_jplus(j) == IF cfg.B_COND \in {BC_DIRICHLET, BC_ABSORBING} THEN PlusClamp(j, NY)
                ELSE IF cfg.B_COND = BC_PERIODIC THEN Plus(j, NY) ELSE junk
sch_jminus(j) == IF cfg.B_COND \in {BC_DIRICHLET, BC_ABSORBING} THEN MinusClamp(j)
                 ELSE IF cfg.B_COND = BC_PERIODIC THEN Minus(j, NY) ELSE junk

\* the same neighbour with the upper border asked before the right one
sch_inward_upper_first(i, j) ==
    IF j = NY - 1 THEN <<i, j - 1>>
    ELSE IF i = NX - 1 THEN <<i - 1, j>>
    ELSE IF i = 0 THEN <<1, j>>
    ELSE <<i, 1>>

\* the inward neighbour an absorbing border cell uses: right, upper, left, lower
sch_inward(i, j) ==
    IF i = NX - 1 THEN <<i - 1, j>>
    ELSE IF j = NY - 1 THEN <<i, j - 1>>
    ELSE IF i = 0 THEN <<1, j>>
    ELSE <<i, 1>>

sch_bulk(i, j) == (i > 0) /\ (i < NX - 1) /\ (j > 0) /\ (j < NY - 1)

sch_reads(b, c, ip, im, jp, jm) ==
    { <<b.phi_in, <<ip, c[2]>> >>, <<b.phi_in, <<im, c[2]>> >>, <<b.phi_in, <<c[1], jp>> >>,
      <<b.phi_in, <<c[1], jm>> >>, <<b.phi_in, c>>,
      <<b.psi_in, <<ip, c[2]>> >>, <<b.psi_in, <<im, c[2]>> >>, <<b.psi_in, <<c[1], jp>> >>,
      <<b.psi_in, <<c[1], jm>> >>, <<b.psi_in, c>> }

\* a rule that steps each component by its own Laplacian
sch_leap_same_component(s, b, c, x, y, delta1, delta2, reads) ==
    Put(s, c, b.phi_out, Floor(RSub(x, RMul(cfg.intstep, delta1))),
              b.psi_out, Floor(RAdd(y, RMul(cfg.intstep, delta2))), reads)
\* the rule of every cell but the absorbing border
sch_leap(s, b, c, x, y, delta1, delta2, reads) ==
    Put(s, c, b.phi_out, Floor(RSub(x, RMul(cfg.intstep, delta2))),
              b.psi_out, Floor(RAdd(y, RMul(cfg.intstep, delta1))), reads)

\* the rule of the absorbing border, n the inward neighbour
sch_absorb(s, b, c, x, y, n, reads) ==
    Put(s, c, b.phi_out, Floor(RSub(x, RMul(cfg.intstep1, RSub(y, s[b.psi_in][n])))),
              b.psi_out, Floor(RAdd(y, RMul(cfg.intstep1, RSub(x, s[b.phi_in][n])))),
              reads \cup { <<b.phi_in, n>>, <<b.psi_in, n>> })

\* delta1, delta2: the four values at the selected indices minus 4 times the cell's
sch_delta(f, c, ip, im, jp, jm) ==
    Laplace4(f, <<ip, c[2]>>, <<im, c[2]>>, <<c[1], jp>>, <<c[1], jm>>, f[c])

sch_update(s, b, c, ip, im, jp, jm) ==
    IF cfg.B_COND # BC_ABSORBING \/ sch_bulk(c[1], c[2])
    THEN sch_leap(s, b, c, s[b.phi_in][c], s[b.psi_in][c],
                  sch_delta(s[b.phi_in], c, ip, im, jp, jm),
                  sch_delta(s[b.psi_in], c, ip, im, jp, jm),
                  sch_reads(b, c, ip, im, jp, jm))
    ELSE sch_absorb(s, b, c, s[b.phi_in][c], s[b.psi_in][c], sch_inward(c[1], c[2]),
                    sch_reads(b, c, ip, im, jp, jm))

sch_cell(s, b, i, j) ==
    IF xy_in[<<i, j>>] # 0
    THEN sch_update(s, b, <<i, j>>, sch_iplus(i), sch_iminus(i), sch_jplus(j), sch_jminus(j))
    ELSE s

RECURSIVE sch_row(_, _, _, _)
sch_row(s, b, i, j) == IF j = NY THEN s ELSE sch_row(sch_cell(s, b, i, j), b, i, j + 1)

\* schrodinger.c: Dirichlet, periodic and absorbing walls, and a selector its
\* stencil has no branch for
ConfigsSch ==
    { Cfg(Undamped, Flags(b, FALSE, FALSE, FALSE, FALSE)) :
        b \in {BC_DIRICHLET, BC_PERIODIC, BC_ABSORBING, BC_VPER_HABS} }
    \cup { Cfg(Whole, Flags(BC_DIRICHLET, FALSE, FALSE, TRUE, TRUE)),
           Cfg(Damped, Flags(BC_PERIODIC, FALSE, FALSE, TRUE, FALSE)) }

----------------------------------------------------------------------------
(* wave_3d.c: evolve_wave_half *)

\* sum of three values minus 3 times x
Laplace3(f, a, b, c, x) == RSub(RAdd(RAdd(f[a], f[b]), f[c]), RMul(R(3), x))

\* a pass that left the mask out would update every cell
w3d_on_every(c) == c \in Cells
\* a pass that kept to the mask in a two-speed medium too
w3d_on_inside_only(c) == xy_in[c] # 0
\* the cells a pass updates: all of them in a two-speed medium
w3d_on(c) == cfg.TWOSPEEDS \/ xy_in[c] # 0

Own(b, c) == { <<b.phi_in, c>>, <<b.psi_in, c>> }
On(name, cells) == { <<name, n>> : n \in cells }

\* leapfrog rule with the cell's own coefficients; nb the neighbours delta was read from
w3d_leap(s, b, c, delta, nb) ==
    Put(s, c, b.phi_out, Leapfrog(s[b.phi_in][c], s[b.psi_in][c], s.tcc[c], delta, cfg.KAPPA,
                                  s.tgamma[c]),
              b.psi_out, s[b.phi_in][c],
              Own(b, c) \cup On(b.phi_in, nb) \cup { <<"tcc", c>>, <<"tgamma", c>> })

\* an absorbing rule without its damping term
AbsorbUndamped(x, y, c1, n, kappa, gamma) ==
    RSub(RSub(x, RMul(c1, RSub(x, n))), RMul(kappa, x))
\* absorbing rule: decay towards neighbour n
Absorb(x, y, c1, n, kappa, gamma) ==
    RSub(RSub(RSub(x, RMul(c1, RSub(x, n))), RMul(kappa, x)), RMul(gamma, RSub(x, y)))

w3d_absorb(s, b, c, n, kappa, gamma, nb) ==
    Put(s, c, b.phi_out, Absorb(s[b.phi_in][c], s[b.psi_in][c], s.tc[c], s[b.phi_in][n],
                                kappa, gamma),
              b.psi_out, s[b.phi_in][c],
              Own(b, c) \cup On(b.phi_in, nb \cup {n}) \cup { <<"tc", c>> })

\* evolution in the bulk, row i of the omp loop
w3d_bulk_cell(s, b, i, j) ==
    IF w3d_on(<<i, j>>)
    THEN w3d_leap(s, b, <<i, j>>,
                  Laplace4(s[b.phi_in], <<i + 1, j>>, <<i - 1, j>>, <<i, j + 1>>, <<i, j - 1>>,
                           s[b.phi_in][<<i, j>>]),
                  { <<i + 1, j>>, <<i - 1, j>>, <<i, j + 1>>, <<i, j - 1>> })
    ELSE s

RECURSIVE w3d_bulk_row(_, _, _, _)
w3d_bulk_row(s, b, i, j) ==
    IF j >= NY - 1 THEN s ELSE w3d_bulk_row(w3d_bulk_cell(s, b, i, j), b, i, j + 1)

\* AMPLITUDE*cos(time*OMEGA), the cosine by its series up to the square
AMPLITUDE == One
OMEGA == <<1, 4>>
Drive(t) == RMul(AMPLITUDE, RSub(One, RMul(<<1, 2>>, RMul(RMul(R(t), OMEGA), RMul(R(t), OMEGA)))))

\* the driven left boundary writes phi_out alone
w3d_drive(s, b, c, t) ==
    [Acc(s, {}, { <<b.phi_out, c>> }) EXCEPT ![b.phi_out][c] = Drive(t)]

\* delta of the Dirichlet case on the left and right boundary, a the row inside
w3d_delta_side(f, c, a) ==
    Laplace3(f, <<a, c[2]>>, <<c[1], c[2] + 1>>, <<c[1], c[2] - 1>>, f[c])
\* delta of the Dirichlet case on the top and bottom boundary, a the column inside
w3d_delta_topbot(f, c, a) ==
    Laplace3(f, <<PlusClamp(c[1], NX), c[2]>>, <<MinusClamp(c[1]), c[2]>>, <<c[1], a>>, f[c])

\* left (i = 0) or right (i = NX-1) boundary cell; a the row inside, w the row across
w3d_side_cell(s, b, c, a, w) ==
    IF ~w3d_on(c) THEN s
    ELSE IF cfg.B_COND = BC_DIRICHLET
    THEN w3d_leap(s, b, c, w3d_delta_side(s[b.phi_in], c, a),
                  { <<a, c[2]>>, <<c[1], c[2] + 1>>, <<c[1], c[2] - 1>> })
    ELSE IF cfg.B_COND = BC_PERIODIC
    THEN w3d_leap(s, b, c,
                  Laplace4(s[b.phi_in], <<a, c[2]>>, <<w, c[2]>>, <<c[1], c[2] + 1>>,
                           <<c[1], c[2] - 1>>, s[b.phi_in][c]),
                  { <<a, c[2]>>, <<w, c[2]>>, <<c[1], c[2] + 1>>, <<c[1], c[2] - 1>> })
    ELSE w3d_absorb(s, b, c, <<a, c[2]>>, cfg.KAPPA_SIDES, cfg.GAMMA_SIDES,
                    { <<a, c[2]>>, <<c[1], c[2] + 1>>, <<c[1], c[2] - 1>> })

\* a left pass that runs on into the upper corner (the row above it clamped)
RECURSIVE w3d_left_to_corner(_, _, _, _)
w3d_left_to_corner(s, b, j, t) ==
    IF j >= NY THEN s
    ELSE w3d_left_to_corner(
             IF cfg.OSCILLATE_LEFT THEN w3d_drive(s, b, <<0, j>>, t)
             ELSE IF j < NY - 1 THEN w3d_side_cell(s, b, <<0, j>>, 1, NX - 1)
             ELSE IF ~w3d_on(<<0, j>>) THEN s
             ELSE w3d_leap(s, b, <<0, j>>,
                           Laplace3(s[b.phi_in], <<1, j>>, <<0, j - 1>>, <<0, j - 1>>,
                                    s[b.phi_in][<<0, j>>]),
                           { <<1, j>>, <<0, j - 1>> }),
             b, j + 1, t)
RECURSIVE w3d_left(_, _, _, _)
w3d_left(s, b, j, t) ==
    IF j >= NY - 1 THEN s
    ELSE w3d_left(IF cfg.OSCILLATE_LEFT THEN w3d_drive(s, b, <<0, j>>, t)
                  ELSE w3d_side_cell(s, b, <<0, j>>, 1, NX - 1),
                  b, j + 1, t)

RECURSIVE w3d_right(_, _, _)
w3d_right(s, b, j) ==
    IF j >= NY - 1 THEN s
    ELSE w3d_right(w3d_side_cell(s, b, <<NX - 1, j>>, NX - 2, 0), b, j + 1)

\* top (j = NY-1) or bottom (j = 0) boundary cell; a the column inside, w the column across
w3d_topbot_cell(s, b, c, a, w) ==
    IF ~w3d_on(c) THEN s
    ELSE IF cfg.B_COND = BC_DIRICHLET
    THEN w3d_leap(s, b, c, w3d_delta_topbot(s[b.phi_in], c, a),
                  { <<PlusClamp(c[1], NX), c[2]>>, <<MinusClamp(c[1]), c[2]>>, <<c[1], a>> })
    ELSE IF cfg.B_COND = BC_PERIODIC
    THEN w3d_leap(s, b, c,
                  Laplace4(s[b.phi_in], <<Plus(c[1], NX), c[2]>>, <<Minus(c[1], NX), c[2]>>,
                           <<c[1], a>>, <<c[1], w>>, s[b.phi_in][c]),
                  { <<Plus(c[1], NX), c[2]>>, <<Minus(c[1], NX), c[2]>>, <<c[1], a>>,
                    <<c[1], w>> })
    ELSE IF cfg.B_COND = BC_ABSORBING
    THEN w3d_absorb(s, b, c, <<c[1], a>>, cfg.KAPPA_TOPBOT, cfg.GAMMA_TOPBOT,
                    { <<PlusClamp(c[1], NX), c[2]>>, <<MinusClamp(c[1]), c[2]>>, <<c[1], a>> })
    ELSE IF c[1] = 0
    THEN w3d_absorb(s, b, c, <<1, c[2]>>, cfg.KAPPA_SIDES, cfg.GAMMA_SIDES,
                    { <<PlusClamp(c[1], NX), c[2]>>, <<MinusClamp(c[1]), c[2]>>, <<c[1], a>>,
                      <<c[1], w>> })
    ELSE w3d_leap(s, b, c,
                  Laplace4(s[b.phi_in], <<PlusClamp(c[1], NX), c[2]>>, <<MinusClamp(c[1]), c[2]>>,
                           <<c[1], a>>, <<c[1], w>>, s[b.phi_in][c]),
                  { <<PlusClamp(c[1], NX), c[2]>>, <<MinusClamp(c[1]), c[2]>>, <<c[1], a>>,
                    <<c[1], w>> })

RECURSIVE w3d_top(_, _, _)
w3d_top(s, b, i) ==
    IF i >= NX THEN s ELSE w3d_top(w3d_topbot_cell(s, b, <<i, NY - 1>>, NY - 2, 0), b, i + 1)

RECURSIVE w3d_bottom(_, _, _)
w3d_bottom(s, b, i) ==
    IF i >= NX THEN s ELSE w3d_bottom(w3d_topbot_cell(s, b, <<i, 0>>, 1, NY - 1), b, i + 1)

\* add oscillating boundary condition on the left corners
w3d_corners(s, b, t) ==
    IF cfg.OSCILLATE_LEFT
    THEN w3d_drive(w3d_drive(s, b, <<0, 0>>, t), b, <<0, NY - 1>>, t)
    ELSE s

\* if (FLOOR): clamp phi_out and psi_out in the inside cells
w3d_floor(s, b) ==
    IF cfg.FLOOR
    THEN [s EXCEPT ![b.phi_out] = [c \in Cells |-> IF xy_in[c] # 0 THEN Clamp(@[c]) ELSE @[c]],
                   ![b.psi_out] = [c \in Cells |-> IF xy_in[c] # 0 THEN Clamp(@[c]) ELSE @[c]]]
    ELSE s

\* everything of evolve_wave_half after the omp loop
w3d_edges(s, b, t) ==
    w3d_floor(w3d_corners(w3d_bottom(w3d_top(w3d_right(w3d_left(s, b, 1, t), b, 1), b, 0), b, 0),
                          b, t), b)

\* animation(): initialize table of wave speeds/dissipation
\* a table pass without the branch of the outside cells
table_tc_inside_only(m, two) == [c \in Cells |-> IF m[c] # 0 THEN cfg.COURANT ELSE Undef]
table_tc(m, two) ==
    [c \in Cells |-> IF m[c] # 0 THEN cfg.COURANT ELSE IF two THEN cfg.COURANTB ELSE Undef]
table_tcc(m, two) ==
    [c \in Cells |-> IF m[c] # 0 THEN RMul(cfg.COURANT, cfg.COURANT)
                     ELSE IF two THEN RMul(cfg.COURANTB, cfg.COURANTB) ELSE Undef]
table_tgamma(m, two) ==
    [c \in Cells |-> IF m[c] # 0 THEN (IF m[c] = 1 THEN cfg.GAMMA ELSE cfg.GAMMAB)
                     ELSE IF two THEN cfg.GAMMAB ELSE Undef]

\* masks of wave_3d.c: some carry a cell of a second medium
Masks3D == Masks \cup { [c \in Cells |-> IF c = p THEN 2 ELSE 1] : p \in Probes }

ConfigsW3D ==
    { Cfg(Undamped, Flags(b, FALSE, FALSE, FALSE, FALSE)) :
        b \in {BC_DIRICHLET, BC_PERIODIC, BC_ABSORBING, BC_VPER_HABS} }
    \cup { Cfg(Damped, Flags(BC_DIRICHLET, TRUE, FALSE, FALSE, FALSE)),
           Cfg(Damped, Flags(BC_PERIODIC, FALSE, TRUE, FALSE, FALSE)),
           Cfg(Damped, Flags(BC_DIRICHLET, TRUE, TRUE, FALSE, FALSE)),
           Cfg(Damped, Flags(BC_ABSORBING, FALSE, FALSE, TRUE, FALSE)),
           Cfg(Damped, Flags(BC_VPER_HABS, TRUE, FALSE, TRUE, FALSE)) }

\* rows of the bulk loop
BulkRows == 1 .. (NX - 2)

----------------------------------------------------------------------------
(* compute_variance and renormalise_field *)

\* the cells of a double loop for (i=lo; i<NX; i++) for (j=lo; j<NY; j++), in order
LoopCells(lo) ==
    [k \in 1 .. ((NX - lo) * (NY - lo)) |->
        <<lo + ((k - 1) \div (NY - lo)), lo + ((k - 1) % (NY - lo))>>]

Sq(v) == RMul(v, v)

\* first index of the loops of compute_variance
cv_first == 1
\* the cells compute_variance counts
cv_cells(m) == { c \in Cells : c[1] >= cv_first /\ c[2] >= cv_first /\ m[c] # 0 }

\* the count without its floor
cv_count_unfloored(n) == n
\* if (n==0) n=1
cv_count(n) == IF n = 0 THEN 1 ELSE n

\* variance += ... over the loop, from cell k of the sequence on
RECURSIVE wb_sum(_, _, _, _)
wb_sum(ph, m, cs, k) ==
    IF k > Len(cs) THEN Zero
    ELSE IF m[cs[k]] # 0 THEN RAdd(Sq(ph[cs[k]]), wb_sum(ph, m, cs, k + 1))
    ELSE wb_sum(ph, m, cs, k + 1)

wb_compute_variance(ph, ps, m) ==
    RDiv(wb_sum(ph, m, LoopCells(cv_first), 1), R(cv_count(Cardinality(cv_cells(m)))))

RECURSIVE sch_sum(_, _, _, _, _)
sch_sum(ph, ps, m, cs, k) ==
    IF k > Len(cs) THEN Zero
    ELSE IF m[cs[k]] # 0
    THEN RAdd(RAdd(Sq(ph[cs[k]]), Sq(ps[cs[k]])), sch_sum(ph, ps, m, cs, k + 1))
    ELSE sch_sum(ph, ps, m, cs, k + 1)

sch_compute_variance(ph, ps, m) ==
    RDiv(sch_sum(ph, ps, m, LoopCells(cv_first), 1), R(cv_count(Cardinality(cv_cells(m)))))

\* first index of the loops of renormalise_field
rn_first == 1
\* the cells renormalise_field divides
rn_cells(m) == { c \in Cells : c[1] >= rn_first /\ c[2] >= rn_first /\ m[c] # 0 }

renormalise_field(f, m, variance) ==
    [c \in Cells |-> IF c \in rn_cells(m) THEN RDiv(f[c], RSqrt(variance)) ELSE f[c]]

----------------------------------------------------------------------------
(* actions *)

Setup == <<prog, cfg, xy_in, junk>>
Config == <<Setup, tc, tcc, tgamma>>
Anim == <<apc, frame, batch, drawn, measured, freed, drops, series>>
Norm == <<var, counted, scaled>>
Access == <<rd, wr, stale, rows>>

SetPass(t) ==
    /\ phi' = t.phi /\ psi' = t.psi /\ phi_tmp' = t.phi_tmp /\ psi_tmp' = t.psi_tmp
    /\ tc' = t.tc /\ tcc' = t.tcc /\ tgamma' = t.tgamma
    /\ rd' = t.rd /\ wr' = t.wr /\ stale' = t.stale

\* NVID evolve_wave calls per frame, frames 0 .. NSTEPS: one call per frame, or
\* one frame with all the calls
WithLoop(C) ==
    { c @@ [NVID |-> n, NSTEPS |-> (MaxSteps \div n) - 1, INITIAL_TIME |-> 0,
            SAVE_TIME_SERIES |-> FALSE] :
        c \in C, n \in {1, MaxSteps} }

\* the buffers animation() allocates and the ones it frees
Allocated(p) ==
    IF p = "wave_billiard" THEN {"phi", "psi", "xy_in"}
    ELSE IF p = "schrodinger" THEN {"phi", "psi", "phi_tmp", "psi_tmp", "xy_in"}
    ELSE {"xy_in", "phi", "psi", "phi_tmp", "psi_tmp", "total_energy", "color_scale",
          "tc", "tcc", "tgamma", "wave"}
Released(p) ==
    IF p = "wave_billiard" THEN {"phi", "psi"}
    ELSE IF p = "schrodinger" THEN {"phi", "psi", "phi_tmp", "psi_tmp", "xy_in"}
    ELSE {"xy_in", "phi", "psi", "phi_tmp", "psi_tmp", "total_energy", "color_scale",
          "tc", "tcc", "tgamma", "wave"}
Buffers == Allocated("wave_billiard") \cup Allocated("schrodinger") \cup Allocated("wave_3d")

\* top of the body of the frame loop
LoopTop == IF cfg.SCALE THEN "scale" ELSE "draw"

\* evolve_wave has returned and its values are not yet in the time series
SamplePending == cfg.SAVE_TIME_SERIES /\ Len(series) < nsteps

\* evolve_wave is called as step j of the frame's batch
Tick == /\ apc = "evolve" /\ batch < cfg.NVID /\ ~SamplePending
        /\ batch' = batch + 1
        /\ UNCHANGED <<apc, frame, drawn, measured, freed, drops, series>>

\* a scale computation of animation()
Measure == /\ apc \in {"prescale", "scale"}
           /\ apc' = (IF apc = "prescale" THEN "scale" ELSE "draw")
           /\ measured' = nsteps
           /\ UNCHANGED <<frame, batch, drawn, freed, drops, series>>

\* draw_wave / draw_wave_3d: before the loop, and in every frame before the batch
Draw(p) ==
    /\ prog = p /\ pc = "idle" /\ apc \in {"firstdraw", "draw"}
    /\ drawn' = nsteps
    /\ apc' = (IF apc = "firstdraw" THEN LoopTop ELSE "evolve")
    /\ batch' = 0
    /\ UNCHANGED <<Config, Norm, Access, phi, psi, phi_tmp, psi_tmp, time, pc, nsteps, pre,
                   nscale, frame, measured, freed, drops, series>>

\* the last value of i for which the frame loop runs: i <= NSTEPS, in wave_3d.c
\* i <= INITIAL_TIME + NSTEPS
LastFrame(p) == IF p = "wave_3d" THEN cfg.INITIAL_TIME + cfg.NSTEPS ELSE cfg.NSTEPS

\* a frame loop that stops one frame early: i < NSTEPS
EndFrameEarly(p) ==
    /\ prog = p /\ pc = "idle" /\ apc = "evolve" /\ batch = cfg.NVID /\ ~SamplePending
    /\ frame' = frame + 1
    /\ apc' = (IF frame + 1 >= LastFrame(p) THEN "free" ELSE LoopTop)
    /\ UNCHANGED <<Config, Norm, Access, phi, psi, phi_tmp, psi_tmp, time, pc, nsteps, pre,
                   nscale, batch, drawn, measured, freed, drops, series>>

\* glutSwapBuffers() and i++: the frame ends, the loop goes on or is left
EndFrame(p) ==
    /\ prog = p /\ pc = "idle" /\ apc = "evolve" /\ batch = cfg.NVID /\ ~SamplePending
    /\ frame' = frame + 1
    /\ apc' = (IF frame + 1 > LastFrame(p) THEN "free" ELSE LoopTop)
    /\ UNCHANGED <<Config, Norm, Access, phi, psi, phi_tmp, psi_tmp, time, pc, nsteps, pre,
                   nscale, batch, drawn, measured, freed, drops, series>>

\* the free() calls at the end of animation(), and its return
FreeAll(p) ==
    /\ prog = p /\ apc = "free"
    /\ freed' = [b \in Buffers |-> IF b \in Released(p) THEN freed[b] + 1 ELSE freed[b]]
    /\ apc' = "returned"
    /\ UNCHANGED <<Config, Norm, Access, phi, psi, phi_tmp, psi_tmp, time, pc, nsteps, pre,
                   nscale, frame, batch, drawn, measured, drops, series>>

\* a micro-step begins: remember the buffers, forget the last one's accesses
Begin == /\ pre' = bufs /\ rd' = {} /\ wr' = {} /\ stale' = {} /\ rows' = {}

\* evolve_wave of wave_billiard.c is called: the omp loop over the rows starts
wb_evolve_wave ==
    /\ prog = "wave_billiard" /\ pc = "idle" /\ nsteps < MaxSteps
    /\ Tick
    /\ pc' = "evolve" /\ nsteps' = nsteps + 1
    /\ Begin /\ nscale' = 0
    /\ UNCHANGED <<Config, Norm, phi, psi, phi_tmp, psi_tmp, time>>

\* one iteration i of the omp loop; evolve_wave returns after the last one
wb_evolve_row(i) ==
    /\ prog = "wave_billiard" /\ pc = "evolve" /\ Ready(i, 0, NX)
    /\ \E t \in { wb_row(Pass, i, 0) } : SetPass(t)
    /\ rows' = rows \cup {i}
    /\ pc' = IF rows' = Rows THEN "idle" ELSE "evolve"
    /\ UNCHANGED <<Setup, Norm, Anim, time, nsteps, pre, nscale>>

InitCommon ==
    /\ time = 0
    /\ frame = 0 /\ batch = 0 /\ drawn = -1 /\ measured = -1
    /\ freed = [b \in Buffers |-> 0]
    /\ drops = <<>> /\ series = <<>>
    /\ pc = "idle" /\ rows = {} /\ nsteps = 0
    /\ pre = bufs
    /\ rd = {} /\ wr = {} /\ stale = {}
    /\ var = Undef /\ counted = {} /\ scaled = {} /\ nscale = 0

\* after init_wave: the packet in every cell of phi, psi zero
InitWB ==
    /\ prog = "wave_billiard"
    /\ cfg \in WithLoop(ConfigsWB)
    /\ apc = "firstdraw" /\ junk = 0
    /\ xy_in \in Masks
    /\ phi \in Packets
    /\ psi = Fill(Zero)
    /\ phi_tmp = Fill(Undef) /\ psi_tmp = Fill(Undef)
    /\ tc = Fill(Undef) /\ tcc = Fill(Undef) /\ tgamma = Fill(Undef)
    /\ InitCommon

\* evolve_wave of schrodinger.c is called and calls the first evolve_wave_half
sch_evolve_wave ==
    /\ prog = "schrodinger" /\ pc = "idle" /\ nsteps < MaxSteps
    /\ Tick
    /\ pc' = "half1" /\ nsteps' = nsteps + 1
    /\ Begin /\ nscale' = 0
    /\ UNCHANGED <<Config, Norm, phi, psi, phi_tmp, psi_tmp, time>>

\* row i uses an index that no branch assigned and that lies outside the arrays
sch_strays(i) ==
    /\ cfg.B_COND \notin sch_handled /\ junk = Wild
    /\ \E j \in Cols : xy_in[<<i, j>>] # 0

\* phi_in[iplus][j] with iplus outside the array: the process is killed
sch_fault(i) ==
    /\ prog = "schrodinger" /\ pc \in {"half1", "half2"} /\ Ready(i, 0, NX)
    /\ sch_strays(i)
    /\ pc' = "crashed" /\ apc' = "crashed"
    /\ UNCHANGED <<Config, Norm, Access, phi, psi, phi_tmp, psi_tmp, time, nsteps, pre, nscale,
                   frame, batch, drawn, measured, freed, drops, series>>

\* one iteration i of the omp loop of evolve_wave_half
sch_half_row(i) ==
    /\ prog = "schrodinger" /\ pc \in {"half1", "half2"} /\ Ready(i, 0, NX)
    /\ ~sch_strays(i)
    /\ \E t \in { sch_row(Pass, Bufs(pc), i, 0) } : SetPass(t)
    /\ rows' = rows \cup {i}
    /\ pc' = IF rows' # Rows THEN pc ELSE IF pc = "half1" THEN "ret1" ELSE "idle"
    /\ UNCHANGED <<Setup, Norm, Anim, time, nsteps, pre, nscale>>

\* the first half-step has returned: evolve_wave calls the second
sch_second_half ==
    /\ prog = "schrodinger" /\ pc = "ret1"
    /\ pc' = "half2"
    /\ Begin
    /\ UNCHANGED <<Config, Norm, Anim, phi, psi, phi_tmp, psi_tmp, time, nsteps, nscale>>

\* after init_coherent_state: the packet in the inside cells, zero outside
InitSch ==
    /\ prog = "schrodinger"
    /\ cfg \in WithLoop(ConfigsSch)
    /\ apc = (IF cfg.SCALE THEN "prescale" ELSE LoopTop)
    /\ junk \in (IF cfg.B_COND \in sch_handled THEN {0} ELSE Junk)
    /\ xy_in \in Masks
    /\ \E f \in Packets2 : phi = Masked(f[1]) /\ psi = Masked(f[2])
    /\ phi_tmp = Fill(Undef) /\ psi_tmp = Fill(Undef)
    /\ tc = Fill(Undef) /\ tcc = Fill(Undef) /\ tgamma = Fill(Undef)
    /\ InitCommon

\* evolve_wave of wave_3d.c is called and calls the first evolve_wave_half
w3d_evolve_wave ==
    /\ prog = "wave_3d" /\ pc = "idle" /\ nsteps < MaxSteps
    /\ Tick
    /\ pc' = (IF BulkRows = {} THEN "edges1" ELSE "half1") /\ nsteps' = nsteps + 1
    /\ time' = time + 1
    /\ Begin /\ nscale' = 0
    /\ UNCHANGED <<Config, Norm, phi, psi, phi_tmp, psi_tmp>>

\* one iteration i of the omp loop over the bulk
w3d_half_row(i) ==
    /\ prog = "wave_3d" /\ pc \in {"half1", "half2"} /\ Ready(i, 1, NX - 2)
    /\ \E t \in { w3d_bulk_row(Pass, Bufs(pc), i, 1) } : SetPass(t)
    /\ rows' = rows \cup {i}
    /\ pc' = IF rows' # BulkRows THEN pc ELSE IF pc = "half1" THEN "edges1" ELSE "edges2"
    /\ UNCHANGED <<Setup, Norm, Anim, time, nsteps, pre, nscale>>

\* the boundary passes, the driven corners and the clamp; evolve_wave_half returns
w3d_half_edges ==
    /\ prog = "wave_3d" /\ pc \in {"edges1", "edges2"}
    /\ \E t \in { w3d_edges(Pass, Bufs(pc), time) } : SetPass(t)
    /\ pc' = IF pc = "edges1" THEN "ret1" ELSE "idle"
    /\ UNCHANGED <<Setup, Norm, Anim, time, nsteps, pre, rows, nscale>>

\* the first half-step has returned: evolve_wave calls the second
w3d_second_half ==
    /\ prog = "wave_3d" /\ pc = "ret1"
    /\ pc' = (IF BulkRows = {} THEN "edges2" ELSE "half2")
    /\ time' = time + 1
    /\ Begin
    /\ UNCHANGED <<Config, Norm, Anim, phi, psi, phi_tmp, psi_tmp, nsteps, nscale>>

\* after the initialiser and the table pass of animation(); the initialiser is
\* not in this file: it may or may not leave the packet in the outside cells
InitW3D ==
    /\ prog = "wave_3d"
    /\ cfg \in WithLoop(ConfigsW3D)
               \cup { [c EXCEPT !.INITIAL_TIME = 1, !.NSTEPS = c.NSTEPS - 1] :
                        c \in { d \in WithLoop({ Cfg(Undamped, Flags(BC_DIRICHLET, FALSE, FALSE,
                                                                      FALSE, FALSE)) }) :
                                  d.NSTEPS >= 1 } }
    /\ apc = "firstdraw" /\ junk = 0
    /\ xy_in \in Masks3D
    /\ \E f \in Packets : phi \in {f, Masked(f)}
    /\ psi = Fill(Zero)
    /\ phi_tmp = Fill(Undef) /\ psi_tmp = Fill(Undef)
    /\ tc = table_tc(xy_in, cfg.TWOSPEEDS)
    /\ tcc = table_tcc(xy_in, cfg.TWOSPEEDS)
    /\ tgamma = table_tgamma(xy_in, cfg.TWOSPEEDS)
    /\ InitCommon

NextW3D ==
    \/ Draw("wave_3d")
    \/ EndFrame("wave_3d")
    \/ FreeAll("wave_3d")
    \/ w3d_evolve_wave
    \/ w3d_second_half
    \/ w3d_half_edges
    \/ \E i \in BulkRows : w3d_half_row(i)

SpecW3D == InitW3D /\ [][NextW3D]_vars

\* sample_left[0]*NY+sample_left[1] and the same of sample_right: animation()
\* declares the four indices and never assigns them
ProbeIndex == junk * NY + junk

\* if (SAVE_TIME_SERIES) after evolve_wave: phi at the two probes goes to the two
\* files; a probe outside the array kills the process or yields any value
w3d_sample ==
    /\ prog = "wave_3d" /\ pc = "idle" /\ apc = "evolve" /\ SamplePending
    /\ \/ /\ ProbeIndex \in 0 .. (NX * NY - 1)
          /\ series' = Append(series, <<phi[<<ProbeIndex \div NY, ProbeIndex % NY>>],
                                         phi[<<ProbeIndex \div NY, ProbeIndex % NY>>]>>)
          /\ UNCHANGED <<pc, apc>>
       \/ /\ ProbeIndex \notin 0 .. (NX * NY - 1)
          /\ series' = Append(series, <<Undef, Undef>>)
          /\ UNCHANGED <<pc, apc>>
       \/ /\ ProbeIndex \notin 0 .. (NX * NY - 1)
          /\ pc' = "crashed" /\ apc' = "crashed"
          /\ UNCHANGED series
    /\ UNCHANGED <<Config, Norm, Access, phi, psi, phi_tmp, psi_tmp, time, nsteps, pre, nscale,
                   frame, batch, drawn, measured, freed, drops>>

\* wave_3d.c built with SAVE_TIME_SERIES 1
InitSeries ==
    /\ prog = "wave_3d"
    /\ cfg \in { [c EXCEPT !.SAVE_TIME_SERIES = TRUE] :
                   c \in WithLoop({ Cfg(Undamped, Flags(BC_DIRICHLET, FALSE, FALSE, FALSE, FALSE)) }) }
    /\ apc = "firstdraw" /\ junk \in Junk
    /\ xy_in \in { Fill(1) }
    /\ \E f \in Packets : phi = f
    /\ psi = Fill(Zero)
    /\ phi_tmp = Fill(Undef) /\ psi_tmp = Fill(Undef)
    /\ tc = table_tc(xy_in, cfg.TWOSPEEDS)
    /\ tcc = table_tcc(xy_in, cfg.TWOSPEEDS)
    /\ tgamma = table_tgamma(xy_in, cfg.TWOSPEEDS)
    /\ InitCommon

NextSeries == NextW3D \/ w3d_sample

SpecSeries == InitSeries /\ [][NextSeries]_vars

\* animation(): var = compute_variance(...); renormalise_field(..., var).
\* The step is taken where the square root of var is a rational.
sch_scale ==
    /\ prog = "schrodinger" /\ pc = "idle" /\ cfg.SCALE /\ nscale < MaxScale
    /\ Measure
    /\ \E v \in { sch_compute_variance(phi, psi, xy_in) } :
           /\ HasSqrt(v)
           /\ var' = v
           /\ phi' = renormalise_field(phi, xy_in, v)
           /\ psi' = renormalise_field(psi, xy_in, v)
    /\ counted' = cv_cells(xy_in)
    /\ scaled' = rn_cells(xy_in)
    /\ pre' = bufs
    /\ nscale' = nscale + 1
    /\ UNCHANGED <<Config, Access, phi_tmp, psi_tmp, time, pc, nsteps>>

NextSch ==
    \/ Draw("schrodinger")
    \/ EndFrame("schrodinger")
    \/ FreeAll("schrodinger")
    \/ sch_evolve_wave
    \/ sch_second_half
    \/ sch_scale
    \/ \E i \in Rows : sch_half_row(i)
    \/ \E i \in Rows : sch_fault(i)

SpecSch == InitSch /\ [][NextSch]_vars

\* animation(): scale = sqrt(1.0 + compute_variance(phi, psi, xy_in))
wb_scale ==
    /\ prog = "wave_billiard" /\ pc = "idle" /\ cfg.SCALE /\ nscale < MaxScale
    /\ Measure
    /\ var' = wb_compute_variance(phi, psi, xy_in)
    /\ counted' = cv_cells(xy_in)
    /\ pre' = bufs
    /\ nscale' = nscale + 1
    /\ UNCHANGED <<Config, Access, phi, psi, phi_tmp, psi_tmp, time, pc, nsteps, scaled>>

NextWB ==
    \/ Draw("wave_billiard")
    \/ EndFrame("wave_billiard")
    \/ FreeAll("wave_billiard")
    \/ wb_evolve_wave
    \/ wb_scale
    \/ \E i \in Rows : wb_evolve_row(i)

SpecWB == InitWB /\ [][NextWB]_vars

----------------------------------------------------------------------------
(* wave_billiard.c: add_drop_to_wave, called on its own *)

\* 0.2*exp(-dist2/0.001)*cos(-sqrt(dist2)/0.01) at squared distance d2 from the
\* centre, in grid units: a dying oscillation, 0 where exp() underflows
DropShape(d2) ==
    IF d2 = 0 THEN One ELSE IF d2 = 1 THEN <<3, 8>> ELSE IF d2 = 2 THEN <<-1, 8>> ELSE Zero

Dist2(c, x) == (c[1] - x[1]) * (c[1] - x[1]) + (c[2] - x[2]) * (c[2] - x[2])

\* the drop without its prefactor
DropUnsigned(factor, x, c) == DropShape(Dist2(c, x))
\* the value the call adds to cell c
DropTerm(factor, x, c) == RMul(R(factor), DropShape(Dist2(c, x)))

\* a field of numbers with three significant bits
Eighths == [c \in Cells |-> RNorm((1 + c[1] + NX * c[2]) % 8, 8)]

\* add_drop_to_wave(factor, x, y, phi, psi)
wb_add_drop(factor, x) ==
    /\ prog = "wave_billiard" /\ apc = "drop" /\ Len(drops) < MaxDrops
    /\ phi' = [c \in Cells |-> FAdd(phi[c], DropTerm(factor, x, c))]
    /\ drops' = Append(drops, [factor |-> factor, centre |-> x, phi |-> phi, psi |-> psi])
    /\ pre' = bufs
    /\ UNCHANGED <<Config, Norm, Access, psi, phi_tmp, psi_tmp, time, pc, nsteps, nscale,
                   apc, frame, batch, drawn, measured, freed, series>>

InitDrop ==
    /\ prog = "wave_billiard"
    /\ cfg \in WithLoop({ Cfg(Whole, Flags(BC_PERIODIC, FALSE, FALSE, TRUE, TRUE)) })
    /\ apc = "drop" /\ junk = 0
    /\ xy_in \in { Fill(1), Fill(0) }
    /\ phi \in { Fill(Zero), Impulse(<<2, 2>>, One), Eighths }
    /\ psi \in { Fill(Zero), Eighths }
    /\ phi_tmp = Fill(Undef) /\ psi_tmp = Fill(Undef)
    /\ tc = Fill(Undef) /\ tcc = Fill(Undef) /\ tgamma = Fill(Undef)
    /\ InitCommon

NextDrop == \E factor \in {1, -1}, x \in Probes : wb_add_drop(factor, x)

SpecDrop == InitDrop /\ [][NextDrop]_vars

Init == InitWB \/ InitSch \/ InitW3D

Next == NextWB \/ NextSch \/ NextW3D

Spec == Init /\ [][Next]_vars

\* the programs are sequential and the omp threads run to the end of their rows:
\* a step that can be taken is taken
InitLive == Init /\ \A c \in Cells \ {<<1, 1>>} : xy_in[c] = 1

SpecLive == InitLive /\ [][Next]_vars /\ WF_vars(Next)

----------------------------------------------------------------------------
(* properties of the stencil passes *)

FieldNames == {"phi", "psi", "phi_tmp", "psi_tmp"}
FieldsRead == { p[1] : p \in rd } \cap FieldNames
FieldsWritten == { p[1] : p \in wr } \cap FieldNames

AllInside == \A c \in Cells : xy_in[c] # 0
NoFlags == ~cfg.TWOSPEEDS /\ ~cfg.OSCILLATE_LEFT /\ ~cfg.FLOOR
NoLoss ==
    /\ cfg.GAMMA = Zero /\ cfg.GAMMAB = Zero /\ cfg.KAPPA = Zero
    /\ cfg.GAMMA_SIDES = Zero /\ cfg.GAMMA_TOPBOT = Zero
    /\ cfg.KAPPA_SIDES = Zero /\ cfg.KAPPA_TOPBOT = Zero

\* a micro-step has just returned
StepDone ==
    \/ prog = "wave_billiard" /\ pc = "idle" /\ nsteps > 0 /\ nscale = 0
    \/ prog \in {"schrodinger", "wave_3d"} /\ pc = "ret1"
    \/ prog \in {"schrodinger", "wave_3d"} /\ pc = "idle" /\ nsteps > 0 /\ nscale = 0

\* the field the micro-step that just returned started from, and the one it left
InPhi ==
    IF prog = "wave_billiard" \/ pc = "ret1" THEN pre.phi ELSE pre.phi_tmp
InPsi ==
    IF prog = "wave_billiard" \/ pc = "ret1" THEN pre.psi ELSE pre.psi_tmp
OutPhi == IF prog # "wave_billiard" /\ pc = "ret1" THEN phi_tmp ELSE phi
OutPsi == IF prog # "wave_billiard" /\ pc = "ret1" THEN psi_tmp ELSE psi

\* C1: during one micro-step no stencil read hits a value the same micro-step
\* has already written, and the buffers read and the buffers written are disjoint
C1_ReadsArePreStep == stale = {} /\ FieldsRead \cap FieldsWritten = {}

\* the two-buffer programs keep the rule C1 asks for
C1_TwoBufferPrograms == prog # "wave_billiard" => C1_ReadsArePreStep

\* no stencil write has hit an outside cell, and the outside cells hold what
\* they held when the micro-step or the scaling began
OutsideUntouched ==
    /\ \A p \in wr : xy_in[p[2]] # 0
    /\ \A c \in Cells : xy_in[c] = 0 =>
           /\ phi[c] = pre.phi[c] /\ psi[c] = pre.psi[c]
           /\ phi_tmp[c] = pre.phi_tmp[c] /\ psi_tmp[c] = pre.psi_tmp[c]

\* C2 (as stated): for any mask, policy and number of micro-steps a cell
\* outside the mask is never written by the stencil updater
C2_OutsideNeverWritten == OutsideUntouched

\* C2 (amended): with TWOSPEEDS and OSCILLATE_LEFT off, a cell outside the mask
\* is never written by the stencil updater and keeps its value
C2_OutsideNeverWrittenOneMedium ==
    (~cfg.TWOSPEEDS /\ ~cfg.OSCILLATE_LEFT) => OutsideUntouched

C2_Witness ==
    /\ prog = "wave_3d" /\ ~cfg.TWOSPEEDS /\ ~cfg.OSCILLATE_LEFT
    /\ pc = "idle" /\ nsteps = MaxSteps
    /\ xy_in[<<1, 1>>] = 0 /\ wr # {}

\* the scenario of C3: unit impulse at (2,2) on the 4x4 torus, squared Courant 1/4
ImpulseCell == <<2, 2>>
ImpulseAfter ==
    [c \in Cells |->
        IF c = ImpulseCell THEN One
        ELSE IF c \in { <<1, 2>>, <<3, 2>>, <<2, 1>>, <<2, 3>> } THEN <<1, 4>>
        ELSE Zero]
ImpulseScenario ==
    /\ NX = 4 /\ NY = 4 /\ AllInside /\ NoFlags /\ NoLoss
    /\ prog \in {"wave_billiard", "wave_3d"}
    /\ cfg.B_COND = BC_PERIODIC
    /\ RMul(cfg.COURANT, cfg.COURANT) = <<1, 4>>
    /\ StepDone /\ nsteps = 1 /\ (prog = "wave_3d" => pc = "ret1")
    /\ InPhi = Impulse(ImpulseCell, One) /\ InPsi = Fill(Zero)

\* C3: after one micro-step from the unit impulse, phi is 1 at (2,2), 1/4 at its
\* four axis neighbours and 0 elsewhere, and psi is the pre-step phi
C3_ImpulseStep == ImpulseScenario => (OutPhi = ImpulseAfter /\ OutPsi = InPhi)

\* wave_3d.c gives the values of C3
C3_ImpulseStepW3D == (ImpulseScenario /\ prog = "wave_3d") => (OutPhi = ImpulseAfter /\ OutPsi = InPhi)

\* the pass a micro-step makes when one thread runs the rows in ascending order
PassFrom(b) ==
    [phi |-> b.phi, psi |-> b.psi, phi_tmp |-> b.phi_tmp, psi_tmp |-> b.psi_tmp,
     tc |-> tc, tcc |-> tcc, tgamma |-> tgamma,
     rd |-> {}, wr |-> {}, stale |-> {}]

RECURSIVE wb_rows(_, _)
wb_rows(s, i) == IF i >= NX THEN s ELSE wb_rows(wb_row(s, i, 0), i + 1)

RECURSIVE sch_rows(_, _, _)
sch_rows(s, b, i) == IF i >= NX THEN s ELSE sch_rows(sch_row(s, b, i, 0), b, i + 1)

RECURSIVE w3d_bulk_rows(_, _, _)
w3d_bulk_rows(s, b, i) ==
    IF i >= NX - 1 THEN s ELSE w3d_bulk_rows(w3d_bulk_row(s, b, i, 1), b, i + 1)

LastBufs == IF pc = "ret1" THEN Half1 ELSE Half2

InOrder ==
    IF prog = "wave_billiard" THEN wb_rows(PassFrom(pre), 0)
    ELSE IF prog = "schrodinger" THEN sch_rows(PassFrom(pre), LastBufs, 0)
    ELSE w3d_edges(w3d_bulk_rows(PassFrom(pre), LastBufs, 1), LastBufs, time)

SameFields(t) ==
    phi = t.phi /\ psi = t.psi /\ phi_tmp = t.phi_tmp /\ psi_tmp = t.psi_tmp

\* C4: whatever the order in which the threads of the omp loop run the rows, the
\* buffers after the pass are the ones the rows give in ascending order
C4_OrderIndependent == StepDone => \E t \in { InOrder } : SameFields(t)

\* the two-buffer programs are independent of the order of the rows
C4_TwoBufferPrograms == prog # "wave_billiard" => C4_OrderIndependent

\* a pass of wave_billiard.c has read a value it had written before
C1_StaleRead == prog = "wave_billiard" /\ StepDone /\ stale # {}

\* the four neighbours of a cell on the torus
TorusEast(c) == <<(c[1] + 1) % NX, c[2]>>
TorusWest(c) == <<(c[1] + NX - 1) % NX, c[2]>>
TorusNorth(c) == <<c[1], (c[2] + 1) % NY>>
TorusSouth(c) == <<c[1], (c[2] + NY - 1) % NY>>
TorusLaplace(f, c) ==
    RSub(RAdd(RAdd(RAdd(f[TorusEast(c)], f[TorusWest(c)]), f[TorusNorth(c)]),
              f[TorusSouth(c)]),
         RMul(R(4), f[c]))

\* the cells the last pass gave a new value by its recurrence
Updated ==
    { c \in Cells : <<LastBufs.phi_out, c>> \in wr /\ ~(cfg.OSCILLATE_LEFT /\ c[1] = 0) }

\* the value the recurrences give with the Laplacian of the torus
TorusPhi(c) ==
    IF prog = "schrodinger"
    THEN Floor(RSub(InPhi[c], RMul(cfg.intstep, TorusLaplace(InPsi, c))))
    ELSE Floor(Leapfrog(InPhi[c], InPsi[c], tcc[c], TorusLaplace(InPhi, c), cfg.KAPPA,
                        tgamma[c]))
TorusPsi(c) ==
    IF prog = "schrodinger"
    THEN Floor(RAdd(InPsi[c], RMul(cfg.intstep, TorusLaplace(InPhi, c))))
    ELSE Floor(InPhi[c])

\* C5: under the periodic policy every updated cell, edges and corners included,
\* gets the value of its recurrence with the Laplacian of its four toroidal
\* neighbours minus 4 times its own value
C5_PeriodicLaplacian ==
    (prog \in {"schrodinger", "wave_3d"} /\ cfg.B_COND = BC_PERIODIC /\ StepDone) =>
        \A c \in Updated : OutPhi[c] = TorusPhi(c) /\ OutPsi[c] = TorusPsi(c)

\* a periodic pass has updated two opposite corners of a field whose wrapped and
\* clamped neighbours differ
C5_Witness ==
    /\ prog = "wave_3d" /\ cfg.B_COND = BC_PERIODIC /\ StepDone /\ AllInside
    /\ <<0, 0>> \in Updated /\ <<NX - 1, NY - 1>> \in Updated
    /\ IsFin(OutPhi[<<0, 0>>])
    /\ InPhi[<<NX - 1, 0>>] # InPhi[<<0, 0>>] /\ InPhi[<<0, NY - 1>>] # InPhi[<<0, 0>>]

\* the four corner cells, and the left two
Corners == { <<0, 0>>, <<0, NY - 1>>, <<NX - 1, 0>>, <<NX - 1, NY - 1>> }
LeftCorners == { c \in Corners : c[1] = 0 }

\* the neighbours of a corner towards the inside of the grid
CornerInward(c) ==
    { <<IF c[1] = 0 THEN 1 ELSE NX - 2, c[2]>>, <<c[1], IF c[2] = 0 THEN 1 ELSE NY - 2>> }

\* the clamp of wave_3d.c acts on the inside cells
FloorInside(c, v) == IF cfg.FLOOR /\ xy_in[c] # 0 THEN Clamp(v) ELSE v

\* the new value of c is the absorbing recurrence towards an inward neighbour,
\* with the stiffness and damping of the sides or of the top and bottom
ByAbsorbingRule(c) ==
    \E n \in CornerInward(c) :
        \E k \in { <<cfg.KAPPA_SIDES, cfg.GAMMA_SIDES>>, <<cfg.KAPPA_TOPBOT, cfg.GAMMA_TOPBOT>> } :
            OutPhi[c] = FloorInside(c, Absorb(InPhi[c], InPsi[c], tc[c], InPhi[n], k[1], k[2]))

MixedStepDone == prog = "wave_3d" /\ cfg.B_COND = BC_VPER_HABS /\ StepDone

\* C6: under BC_VPER_HABS each of the four corner cells that is updated gets its
\* new value from the absorbing recurrence
C6_CornersAbsorb == MixedStepDone => \A c \in Corners \cap Updated : ByAbsorbingRule(c)

\* the corners of the left boundary do get the absorbing recurrence
C6_LeftCornersAbsorb ==
    MixedStepDone => \A c \in LeftCorners \cap Updated : ByAbsorbingRule(c)

\* a corner of the right boundary has been updated by another rule
C6_RightCornerLeapfrog ==
    /\ MixedStepDone /\ <<NX - 1, 0>> \in Updated
    /\ IsFin(OutPhi[<<NX - 1, 0>>]) /\ ~ByAbsorbingRule(<<NX - 1, 0>>)

\* every cell of the grid, in the order of a double loop from 0
AllCells == LoopCells(0)

RECURSIVE SumOver(_, _, _)
\* the sum of g over the cells of the sequence cs from the k-th on
SumOver(g, cs, k) == IF k > Len(cs) THEN Zero ELSE RAdd(g[cs[k]], SumOver(g, cs, k + 1))

\* the aggregate statistic of a wave field: the sum of phi squared over the
\* inside cells divided by their number, floored to 1
InsideCount == Cardinality({ c \in Cells : xy_in[c] # 0 })
Aggregate(f) ==
    RDiv(SumOver([c \in Cells |-> IF xy_in[c] # 0 THEN Sq(f[c]) ELSE Zero], AllCells, 1),
         R(IF InsideCount = 0 THEN 1 ELSE InsideCount))

\* the Laplacian the Dirichlet passes of wave_3d.c compute: the neighbours that
\* exist on the grid, minus their number times the cell's own value
GridNeighbours(c) ==
    { n \in { <<c[1] + 1, c[2]>>, <<c[1] - 1, c[2]>>, <<c[1], c[2] + 1>>, <<c[1], c[2] - 1>> } :
        n \in Cells }
RECURSIVE SumSet(_, _)
SumSet(f, S) ==
    IF S = {} THEN Zero ELSE LET n == CHOOSE m \in S : TRUE IN RAdd(f[n], SumSet(f, S \ {n}))
GridLaplace(f, c) ==
    RSub(SumSet(f, GridNeighbours(c)), RMul(R(Cardinality(GridNeighbours(c))), f[c]))
PolicyLaplace(f, c) ==
    IF cfg.B_COND = BC_PERIODIC THEN TorusLaplace(f, c) ELSE GridLaplace(f, c)

\* the energy of the leapfrog scheme for the pair (phi, psi) = (now, before):
\* sum of (phi - psi)^2 minus courant2 times the sum of phi * Laplacian(psi)
Energy(ph, ps) ==
    RSub(SumOver([c \in Cells |-> Sq(RSub(ph[c], ps[c]))], AllCells, 1),
         RMul(RMul(cfg.COURANT, cfg.COURANT),
              SumOver([c \in Cells |-> RMul(ph[c], PolicyLaplace(ps, c))], AllCells, 1)))

\* a micro-step of the lossless wave stencil on a fully-inside grid has returned
LosslessStepDone ==
    /\ prog = "wave_3d" /\ StepDone /\ AllInside /\ NoFlags /\ NoLoss
    /\ cfg.B_COND \in {BC_DIRICHLET, BC_PERIODIC}

----------------------------------------------------------------------------
(* properties of compute_variance and renormalise_field *)

\* compute_variance, and renormalise_field where the program has one, have run
\* on the fields held in pre
Scaled == prog \in {"wave_billiard", "schrodinger"} /\ nscale > 0

\* the statistic over every inside cell of the grid
FullVariance(ph, ps) ==
    RDiv(SumOver([c \in Cells |->
                    IF xy_in[c] = 0 THEN Zero
                    ELSE IF prog = "schrodinger" THEN RAdd(Sq(ph[c]), Sq(ps[c]))
                    ELSE Sq(ph[c])],
                 AllCells, 1),
         R(IF InsideCount = 0 THEN 1 ELSE InsideCount))

\* C8: in schrodinger.c, for any mask and any field whose statistic over the
\* inside cells is not zero, after compute_variance and renormalise_field a
\* second compute_variance returns 1; renormalise_field scales exactly the cells
\* compute_variance counts; a second compute-and-renormalise leaves the field as
\* it is
C8_RenormaliseToOne ==
    (prog = "schrodinger" /\ nscale > 0 /\ IsFin(FullVariance(pre.phi, pre.psi))
        /\ FullVariance(pre.phi, pre.psi) # Zero) =>
        /\ sch_compute_variance(phi, psi, xy_in) = One
        /\ scaled = counted
        /\ (nscale > 1 => phi = pre.phi /\ psi = pre.psi)

\* the same where the value compute_variance returned is not zero
C8_RenormaliseCounted ==
    (prog = "schrodinger" /\ nscale > 0 /\ IsFin(var) /\ var # Zero) =>
        /\ sch_compute_variance(phi, psi, xy_in) = One
        /\ scaled = counted
        /\ (nscale > 1 => var = One /\ phi = pre.phi /\ psi = pre.psi)

\* a field with weight on the inside cells has been through compute_variance
\* and renormalise_field, and compute_variance does not return 1
C8_NotNormalised ==
    /\ prog = "schrodinger" /\ nscale = 1
    /\ IsFin(FullVariance(pre.phi, pre.psi)) /\ FullVariance(pre.phi, pre.psi) # Zero
    /\ sch_compute_variance(phi, psi, xy_in) # One

\* C9: compute_variance returns the sum of the squared magnitude over all cells
\* with non-zero mask, 0 <= i < NX and 0 <= j < NY, divided by their number
C9_VarianceOverAllInside == Scaled => var = FullVariance(pre.phi, pre.psi)

\* compute_variance has left out an inside cell of row 0 or column 0
C9_CellLeftOut ==
    /\ Scaled /\ IsFin(var)
    /\ \E c \in Cells : xy_in[c] # 0 /\ c \notin counted
    /\ var # FullVariance(pre.phi, pre.psi)

\* C10: with no inside cell compute_variance divides by 1 and returns 0, and
\* renormalise_field divides no cell and leaves every cell unchanged
C10_EmptyMask ==
    (Scaled /\ \A c \in Cells : xy_in[c] = 0) =>
        /\ var = Zero /\ counted = {}
        /\ scaled = {}
        /\ phi = pre.phi /\ psi = pre.psi

C10_Witness ==
    /\ prog = "schrodinger" /\ nscale > 0 /\ \A c \in Cells : xy_in[c] = 0
    /\ var = Zero

----------------------------------------------------------------------------
(* properties of the initialisers and of animation() *)

\* the fields are the ones the initialiser left: nothing has stepped or scaled them
AfterInitialiser == nsteps = 0 /\ nscale = 0 /\ drops = <<>> /\ pc = "idle"

OutsideZero == \A c \in Cells : xy_in[c] = 0 => (phi[c] = Zero /\ psi[c] = Zero)

\* C11: after the initialiser of wave_billiard.c or schrodinger.c has run, every
\* cell whose mask value is 0 holds exactly 0 in phi and in psi
C11_OutsideZeroAfterInit ==
    (prog \in {"wave_billiard", "schrodinger"} /\ AfterInitialiser) => OutsideZero

\* init_coherent_state keeps the rule
C11_CoherentStateMasked == (prog = "schrodinger" /\ AfterInitialiser) => OutsideZero

\* init_wave has left a packet value in a cell outside the mask
C11_PacketOutside ==
    /\ prog = "wave_billiard" /\ AfterInitialiser
    /\ \E c \in Cells : xy_in[c] = 0 /\ phi[c] # Zero

\* the last two calls were add_drop_to_wave(1.0, x, y) and add_drop_to_wave(-1.0, x, y)
DropPair ==
    /\ Len(drops) >= 2
    /\ drops[Len(drops) - 1].factor = 1 /\ drops[Len(drops)].factor = -1
    /\ drops[Len(drops) - 1].centre = drops[Len(drops)].centre

\* phi and psi before the first call of the pair
BeforePair == drops[Len(drops) - 1]
\* the cells whose sum phi + drop needs more bits than a number has
RoundedCells ==
    { c \in Cells : LET t == RAdd(BeforePair.phi[c],
                                  DropTerm(1, BeforePair.centre, c))
                    IN  FRound(t) # t }

\* C12: add_drop_to_wave(1.0, x, y, phi, psi) followed by
\* add_drop_to_wave(-1.0, x, y, phi, psi) returns phi to its pre-call value at
\* every cell, and neither call changes psi
C12_DropRoundTrip == DropPair => (phi = BeforePair.phi /\ psi = BeforePair.psi)

\* C12, amended: psi is unchanged; phi returns exactly in every cell whose sum
\* phi + drop is a representable number, and elsewhere within the rounding of the
\* two additions, 2^(1 - MantBits) * (|phi| + |drop|)
C12_DropRoundTripRounded ==
    DropPair =>
        /\ psi = BeforePair.psi
        /\ \A c \in Cells \ RoundedCells : phi[c] = BeforePair.phi[c]
        /\ \A c \in RoundedCells :
               ~RGt(RAbs(RSub(phi[c], BeforePair.phi[c])),
                    RMul(<<2, Pow2(MantBits)>>,
                         RAdd(RAbs(BeforePair.phi[c]),
                              RAbs(DropTerm(1, BeforePair.centre, c)))))

\* a pair of calls that rounded in one cell and did not in another
C12_Witness ==
    /\ DropPair /\ RoundedCells # {} /\ RoundedCells # Cells
    /\ \E c \in RoundedCells : phi[c] # BeforePair.phi[c]
    /\ \E c \in Cells \ RoundedCells : DropTerm(1, BeforePair.centre, c) # Zero

\* C13: when B_COND is a selector the stencil of schrodinger.c has no branch for,
\* the program stops at setup: evolve_wave is never called and no cell is written
C13_UnhandledPolicyNeverSteps ==
    (prog = "schrodinger" /\ cfg.B_COND \notin sch_handled) => (nsteps = 0 /\ wr = {})

\* a micro-step under the unhandled selector has run to its end
C13_SteppedUnhandled ==
    /\ prog = "schrodinger" /\ cfg.B_COND \notin sch_handled
    /\ nsteps > 0 /\ pc = "idle" /\ wr # {}

\* the pass state with an empty record of accesses
Clean == [Pass EXCEPT !.rd = {}, !.wr = {}, !.stale = {}]
\* what each boundary pass of the running evolve_wave_half writes
LeftWrites == w3d_left(Clean, Bufs(pc), 1, time).wr
RightWrites == w3d_right(Clean, Bufs(pc), 1).wr
TopWrites == w3d_top(Clean, Bufs(pc), 0).wr
BottomWrites == w3d_bottom(Clean, Bufs(pc), 0).wr
PassWrites == <<wr, LeftWrites, RightWrites, TopWrites, BottomWrites>>
\* the number of passes of W that write phi_out at cell c
WritersOf(W, c) == Cardinality({ k \in 1 .. 5 : <<Bufs(pc).phi_out, c>> \in W[k] })

\* evolve_wave_half of wave_3d.c has returned
HalfDone == prog = "wave_3d" /\ nsteps > 0 /\ pc \in {"ret1", "idle"}

\* C14: in one call of evolve_wave_half of wave_3d.c the bulk pass and the left,
\* right, top and bottom passes write pairwise disjoint sets of cells, every
\* updated corner is written by exactly one of them; the left corners the
\* oscillating drive writes again hold the drive's value, and the buffers after
\* the call are the same whatever the order of the threads (compared where the
\* call returns, before animation() goes on)
C14_PassesDisjoint ==
    /\ (prog = "wave_3d" /\ pc \in {"edges1", "edges2"}) =>
           \E W \in { PassWrites } :
               /\ \A k, l \in 1 .. 5 : k # l => W[k] \cap W[l] = {}
               /\ \A c \in Corners : WritersOf(W, c) = (IF w3d_on(c) THEN 1 ELSE 0)
    /\ (HalfDone /\ apc = "evolve") =>
           /\ cfg.OSCILLATE_LEFT =>
                  \A c \in LeftCorners : /\ <<LastBufs.phi_out, c>> \in wr
                                         /\ bufs[LastBufs.phi_out][c] = Drive(time)
           /\ \E t \in { InOrder } : SameFields(t)

\* a left corner inside the mask, written by the bottom or top pass and then by
\* the drive
C14_Witness ==
    /\ HalfDone /\ cfg.OSCILLATE_LEFT
    /\ \A c \in LeftCorners : xy_in[c] # 0 /\ bufs[LastBufs.phi_out][c] = Drive(time)
    /\ \E c \in Cells : <<LastBufs.phi_out, c>> \in wr /\ c[1] \in BulkRows

\* v lies in [-VMAX, VMAX]; a value computed from an uninitialised entry or a
\* NaN passes the comparisons of the clamp as it is and is left aside here
InRange(v) == IsFin(v) => (~RGt(v, VMAX) /\ ~RLt(v, RNeg(VMAX)))
\* the field entries the last micro-step wrote
Written == { p \in wr : p[1] \in FieldNames }

\* C15: with FLOOR, after a micro-step every value it wrote, in phi and in psi,
\* the outside cells written with TWOSPEEDS included, lies in [-VMAX, VMAX]
C15_FloorClampsWritten ==
    (StepDone /\ cfg.FLOOR) => \A p \in Written : InRange(bufs[p[1]][p[2]])

\* the same of the cells inside the domain, and of every cell of the programs
\* that clamp inside the update of the cell
C15_FloorClampsInside ==
    (StepDone /\ cfg.FLOOR) =>
        \A p \in Written : (prog # "wave_3d" \/ xy_in[p[2]] # 0) => InRange(bufs[p[1]][p[2]])

\* wave_3d.c with TWOSPEEDS and FLOOR: an outside cell written above VMAX
C15_OutsideUnclamped ==
    /\ StepDone /\ cfg.FLOOR /\ cfg.TWOSPEEDS /\ prog = "wave_3d"
    /\ \E p \in Written : xy_in[p[2]] = 0 /\ RGt(bufs[p[1]][p[2]], VMAX)

\* the cells of the domain
Inside == { c \in Cells : xy_in[c] # 0 }

\* C16: the tables built in animation() of wave_3d.c hold, in every cell of the
\* domain, tc = COURANT in region 1 and, with TWOSPEEDS, COURANTB in region 2,
\* tcc = tc squared, tgamma = GAMMA in region 1 and GAMMAB in any other region
C16_TablesByRegion ==
    prog = "wave_3d" =>
        \A c \in Inside :
            /\ xy_in[c] = 1 => tc[c] = cfg.COURANT
            /\ (xy_in[c] = 2 /\ cfg.TWOSPEEDS) => tc[c] = cfg.COURANTB
            /\ tcc[c] = Sq(tc[c])
            /\ tgamma[c] = (IF xy_in[c] = 1 THEN cfg.GAMMA ELSE cfg.GAMMAB)

\* what the pass builds: COURANT in every cell of the domain, whatever its region
C16_OneSpeedInside ==
    prog = "wave_3d" =>
        \A c \in Inside :
            /\ tc[c] = cfg.COURANT
            /\ tcc[c] = Sq(tc[c])
            /\ tgamma[c] = (IF xy_in[c] = 1 THEN cfg.GAMMA ELSE cfg.GAMMAB)

\* a cell of region 2 with the speed of region 1, TWOSPEEDS on, read by a micro-step
C16_RegionTwoFast ==
    /\ prog = "wave_3d" /\ cfg.TWOSPEEDS /\ cfg.COURANT # cfg.COURANTB
    /\ \E c \in Cells : xy_in[c] = 2 /\ tc[c] = cfg.COURANT /\ <<"tcc", c>> \in rd

\* the tables by the name evolve_wave_half reads them under
Tables == [tc |-> tc, tcc |-> tcc, tgamma |-> tgamma]
\* the table entries the micro-steps read
CoefficientReads == { p \in rd : p[1] \in DOMAIN Tables }

\* C17: in wave_3d.c, with or without TWOSPEEDS, every entry of tc, tcc or tgamma
\* that evolve_wave_half reads was assigned by the table pass of animation()
C17_CoefficientsAssigned ==
    prog = "wave_3d" => \A p \in CoefficientReads : Tables[p[1]][p[2]] # Undef

\* with TWOSPEEDS a micro-step has read the coefficients of an outside cell
C17_Witness ==
    /\ prog = "wave_3d" /\ nsteps > 0 /\ pc = "idle" /\ cfg.TWOSPEEDS
    /\ \E c \in Cells : /\ xy_in[c] = 0 /\ tc[c] = cfg.COURANTB
                         /\ <<"tc", c>> \in rd
    /\ \E c \in Cells : xy_in[c] = 0 /\ {<<"tcc", c>>, <<"tgamma", c>>} \subseteq rd

\* the frame loop of animation() is over
LoopOver == apc \in {"free", "returned"}

\* C18: in the frame loop of each program every batch of NVID calls of
\* evolve_wave is followed, before the loop ends, by the computation of the scale
\* (in schrodinger.c with the renormalisation) and by a draw of the field it
\* left: at the end of the loop the field of the last batch has been measured
\* and drawn
C18_EveryBatchDrawn ==
    LoopOver => /\ drawn = nsteps
                /\ cfg.SCALE => measured = nsteps

\* what the loop does: it draws, then evolves; the draw and the scale of a frame
\* see the field of the batch before it, and the last batch is seen by neither
C18_DrawBeforeBatch ==
    /\ (apc = "evolve" /\ pc = "idle") => drawn = nsteps - batch
    /\ (apc = "evolve" /\ cfg.SCALE) => measured = drawn
    /\ LoopOver => /\ drawn = nsteps - cfg.NVID
                   /\ cfg.SCALE => measured = nsteps - cfg.NVID

\* animation() has returned after NSTEPS + 1 frames, the last batch never drawn
C18_LastBatchUnseen ==
    /\ apc = "returned" /\ frame = cfg.NSTEPS + 1
    /\ nsteps = (cfg.NSTEPS + 1) * cfg.NVID
    /\ drawn < nsteps
    /\ bufs # pre

\* C19: after initialisation no micro-step and no call of compute_variance or
\* renormalise_field writes the mask xy_in or the tables tc, tcc, tgamma: every
\* step leaves them as they are and records writes to the field arrays only
C19_MaskAndTablesFrozen ==
    [][/\ UNCHANGED <<xy_in, tc, tcc, tgamma>>
       /\ \A p \in wr' : p[1] \in FieldNames]_vars

\* wave_3d.c after all its micro-steps, the tables read and as the builder left
\* them, and schrodinger.c after a renormalisation that followed a micro-step
C19_Witness ==
    \/ /\ prog = "wave_3d" /\ pc = "idle" /\ nsteps = MaxSteps
       /\ \E c \in Cells : xy_in[c] = 0
       /\ {"tc", "tcc", "tgamma"} \subseteq { p[1] : p \in rd }
       /\ tc = table_tc(xy_in, cfg.TWOSPEEDS) /\ tcc = table_tcc(xy_in, cfg.TWOSPEEDS)
       /\ tgamma = table_tgamma(xy_in, cfg.TWOSPEEDS)
       /\ wr # {}
    \/ /\ prog = "schrodinger" /\ pc = "idle" /\ nsteps > 0 /\ nscale > 0
       /\ \E c \in Cells : xy_in[c] = 0
       /\ measured = nsteps /\ wr # {}

\* C20: every buffer allocated at the start of animation() is freed exactly once
\* before animation() returns, in each of the three programs, and nothing is
\* freed while the frame loop still runs
C20_EveryBufferFreedOnce ==
    /\ apc = "returned" => \A b \in Allocated(prog) : freed[b] = 1
    /\ apc # "returned" => \A b \in Buffers : freed[b] = 0

\* the same of the arrays the programs do free
C20_ReleasedFreedOnce ==
    /\ apc = "returned" =>
           \A b \in Buffers : freed[b] = (IF b \in Released(prog) THEN 1 ELSE 0)
    /\ apc # "returned" => \A b \in Buffers : freed[b] = 0
    /\ Released("schrodinger") = Allocated("schrodinger")
    /\ Released("wave_3d") = Allocated("wave_3d")

\* animation() of wave_billiard.c has returned with the rows of xy_in never freed
C20_MaskLeaked ==
    /\ prog = "wave_billiard" /\ apc = "returned" /\ nsteps > 0
    /\ freed["xy_in"] = 0 /\ freed["phi"] = 1 /\ freed["psi"] = 1

----------------------------------------------------------------------------
(* properties of the recurrences *)

\* the cells the last pass updated by the leapfrog recurrence: every updated
\* cell of wave_billiard.c; of wave_3d.c the bulk cells and, under the Dirichlet
\* and periodic policies, the cells of the border
LeapfrogCells ==
    { c \in Updated :
        \/ prog = "wave_billiard"
        \/ /\ prog = "wave_3d"
           /\ \/ c[1] \in 1 .. (NX - 2) /\ c[2] \in 1 .. (NY - 2)
              \/ cfg.B_COND \in {BC_DIRICHLET, BC_PERIODIC} }

\* the clamp as the program applies it to cell c
FloorAt(c, v) ==
    IF prog = "wave_3d" THEN (IF cfg.FLOOR /\ xy_in[c] # 0 THEN Clamp(v) ELSE v) ELSE Floor(v)

\* the recurrence on the pre-step values with the Laplacian of the pre-step phi
LeapfrogOf(c) ==
    IF prog = "wave_billiard"
    THEN Leapfrog(InPhi[c], InPsi[c], RMul(cfg.COURANT, cfg.COURANT), TorusLaplace(InPhi, c),
                  cfg.KAPPA, cfg.GAMMA)
    ELSE Leapfrog(InPhi[c], InPsi[c], tcc[c], PolicyLaplace(InPhi, c), cfg.KAPPA, tgamma[c])

\* C21: every cell a micro-step updates by the leapfrog recurrence gets
\* new phi = -y + 2x + tcc*laplacian - KAPPA*x - tgamma*(x - y) and new psi = x,
\* x and y the pre-step phi and psi of the cell, the Laplacian the one of the
\* pre-step phi, tcc and tgamma the coefficients of the cell
C21_LeapfrogRecurrence ==
    (prog \in {"wave_billiard", "wave_3d"} /\ StepDone) =>
        \A c \in LeapfrogCells :
            /\ OutPhi[c] = FloorAt(c, LeapfrogOf(c))
            /\ OutPsi[c] = FloorAt(c, InPhi[c])

\* the same of wave_3d.c, which reads one pair of buffers and writes another
C21_LeapfrogTwoBuffers == prog = "wave_3d" => C21_LeapfrogRecurrence

\* wave_billiard.c: new psi is the pre-step phi of the cell, in every cell
C21_PreviousIsOld ==
    (prog = "wave_billiard" /\ StepDone) => \A c \in Updated : OutPsi[c] = FloorAt(c, InPhi[c])

\* wave_billiard.c: a cell whose new phi is not the recurrence on the pre-step
\* field, its Laplacian taken from neighbours the pass had already replaced
C21_LaplacianOfNewValues ==
    /\ prog = "wave_billiard" /\ StepDone /\ ~cfg.FLOOR
    /\ \E c \in Updated : /\ OutPhi[c] # LeapfrogOf(c)
                           /\ OutPsi[c] = InPhi[c]
                           /\ \E p \in stale : p[1] = "phi"

\* one half-step of the rotation from the pair (f, g) at cell c
RotatePhi(f, g, c) == Floor(RSub(f[c], RMul(cfg.intstep, PolicyLaplace(g, c))))
RotatePsi(f, g, c) == Floor(RAdd(g[c], RMul(cfg.intstep, PolicyLaplace(f, c))))

\* a half-step of schrodinger.c under the Dirichlet or periodic policy has returned
RotationDone ==
    prog = "schrodinger" /\ cfg.B_COND \in {BC_DIRICHLET, BC_PERIODIC} /\ StepDone

\* C22: in schrodinger.c under a non-absorbing policy one evolve_wave_half gives
\* every inside cell phi_out = phi_in - intstep*Laplacian(psi_in) and
\* psi_out = psi_in + intstep*Laplacian(phi_in), reading the input buffers only
\* and writing the inside cells of the output buffers only; evolve_wave is two
\* such half-steps, the second on the output of the first, and ends in phi, psi
C22_LeapfrogRotation ==
    /\ RotationDone =>
           /\ \A c \in Inside : /\ OutPhi[c] = RotatePhi(InPhi, InPsi, c)
                                 /\ OutPsi[c] = RotatePsi(InPhi, InPsi, c)
           /\ FieldsRead \subseteq {LastBufs.phi_in, LastBufs.psi_in}
           /\ wr = { <<n, c>> : n \in {LastBufs.phi_out, LastBufs.psi_out}, c \in Inside }
    /\ (RotationDone /\ pc = "idle") =>
           /\ LastBufs.phi_out = "phi" /\ LastBufs.psi_out = "psi"
           /\ \A c \in Inside : /\ pre.phi_tmp[c] = RotatePhi(pre.phi, pre.psi, c)
                                 /\ pre.psi_tmp[c] = RotatePsi(pre.phi, pre.psi, c)
                                 /\ phi[c] = RotatePhi(pre.phi_tmp, pre.psi_tmp, c)
                                 /\ psi[c] = RotatePsi(pre.phi_tmp, pre.psi_tmp, c)

\* evolve_wave has returned on a domain with more than one cell, under the
\* Dirichlet policy, and has changed psi
C22_Witness ==
    /\ RotationDone /\ pc = "idle" /\ cfg.B_COND = BC_DIRICHLET /\ ~cfg.FLOOR
    /\ AllInside
    /\ \E c \in Inside : IsFin(psi[c]) /\ psi[c] # pre.psi[c] /\ pre.psi_tmp[c] # pre.psi[c]
    /\ \E c \in Inside : IsFin(phi[c]) /\ phi[c] # pre.phi[c]

\* the cells of the border of the grid
Border == { c \in Cells : c[1] \in {0, NX - 1} \/ c[2] \in {0, NY - 1} }
\* the row or column next to the border, seen from a cell on it
InsideOf(k, n) == IF k = 0 THEN 1 ELSE n - 2

\* delta as the Dirichlet case of wave_3d.c computes it at a cell of the border:
\* the top and bottom passes own the corners
Delta3D(f, c) ==
    IF c[2] \in {0, NY - 1} THEN w3d_delta_topbot(f, c, InsideOf(c[2], NY))
    ELSE w3d_delta_side(f, c, InsideOf(c[1], NX))
\* delta as the Dirichlet case of schrodinger.c computes it
DeltaClamped(f, c) ==
    sch_delta(f, c, PlusClamp(c[1], NX), MinusClamp(c[1]), PlusClamp(c[2], NY),
              MinusClamp(c[2]))

\* the arrays of doubles that hold a number in every cell
Assigned == { f \in {phi, psi, phi_tmp, psi_tmp} : \A c \in Cells : IsFin(f[c]) }

Inward(c) ==
    IF c[2] \in {0, NY - 1} THEN <<c[1], InsideOf(c[2], NY)>> ELSE <<InsideOf(c[1], NX), c[2]>>
\* the pair (k, g) of the edge of border cell c
EdgeLoss(c) ==
    IF c[2] \in {0, NY - 1} THEN <<cfg.KAPPA_TOPBOT, cfg.GAMMA_TOPBOT>>
    ELSE <<cfg.KAPPA_SIDES, cfg.GAMMA_SIDES>>
\* x - tc*(x - n) - k*x - g*(x - y) at border cell c
DecayOf(c) ==
    RSub(RSub(RSub(InPhi[c], RMul(tc[c], RSub(InPhi[c], InPhi[Inward(c)]))),
              RMul(EdgeLoss(c)[1], InPhi[c])),
         RMul(EdgeLoss(c)[2], RSub(InPhi[c], InPsi[c])))

AbsorbingStepDone == prog = "wave_3d" /\ cfg.B_COND = BC_ABSORBING /\ StepDone

\* C24: under the absorbing policy of wave_3d.c every updated cell of the border
\* gets new phi = x - tc*(x - n) - k*x - g*(x - y), n the pre-step phi of the
\* neighbour one cell inward, (k, g) the constants of the sides on the left and
\* right edges and those of top and bottom on the top and bottom edges, corners
\* included, and new psi = x
C24_AbsorbingEdges ==
    AbsorbingStepDone =>
        \A c \in Updated \cap Border :
            /\ OutPhi[c] = FloorInside(c, DecayOf(c))
            /\ OutPsi[c] = FloorInside(c, InPhi[c])

\* an absorbing step with losses has updated a corner and a cell of each kind of
\* edge, none left at its old value
C24_Witness ==
    /\ AbsorbingStepDone /\ cfg.GAMMA_SIDES # cfg.GAMMA_TOPBOT /\ cfg.GAMMA_SIDES # Zero
    /\ \E c \in Updated \cap Corners : IsFin(OutPhi[c]) /\ OutPhi[c] # InPhi[c]
    /\ \E c \in Updated \cap (Border \ Corners) :
           c[1] \in {0, NX - 1} /\ IsFin(OutPhi[c]) /\ OutPhi[c] # InPhi[c]
    /\ \E c \in Updated \cap (Border \ Corners) :
           c[2] \in {0, NY - 1} /\ IsFin(OutPhi[c]) /\ OutPhi[c] # InPhi[c]

\* the entries of the two output arrays, one pair for every cell of the grid
EveryOutput == { <<n, c>> : n \in {LastBufs.phi_out, LastBufs.psi_out}, c \in Cells }
\* a call of evolve_wave_half of wave_3d.c in a two-speed medium has returned
TwoSpeedsHalfDone == HalfDone /\ cfg.TWOSPEEDS

\* C25 (as stated): in wave_3d.c with TWOSPEEDS every cell of the grid, whatever
\* its mask value, has phi_out and psi_out written in every call of
\* evolve_wave_half
C25_EveryCellWritten == TwoSpeedsHalfDone => EveryOutput \subseteq wr

\* C25 (amended): so it is with OSCILLATE_LEFT off; with it on, the cells of the
\* left boundary between the corners get phi_out only, every other entry is written
C25_EveryCellWrittenUndriven ==
    TwoSpeedsHalfDone =>
        EveryOutput \ wr =
            (IF cfg.OSCILLATE_LEFT
             THEN { <<LastBufs.psi_out, <<0, j>> >> : j \in 1 .. (NY - 2) }
             ELSE {})

\* a two-speed call without the drive, on a mask with cells outside, wrote them all
C25_Witness ==
    /\ TwoSpeedsHalfDone /\ ~cfg.OSCILLATE_LEFT
    /\ \E c \in Cells : xy_in[c] = 0 /\ c[1] = 0
    /\ \E c \in Cells : xy_in[c] = 0 /\ c \notin Border
    /\ EveryOutput \subseteq wr

\* the scratch entries the running or last half-step has read
ScratchReads == { p \in rd : p[1] \in {"phi_tmp", "psi_tmp"} }
\* the first evolve_wave of a two-buffer program: the scratch arrays hold what
\* malloc left and what the first half-step wrote
FirstTick == prog \in {"schrodinger", "wave_3d"} /\ nsteps = 1

\* C26: every scratch entry the second half-step reads, neighbours outside the
\* mask included, was assigned before, by the initialiser or by the first
\* half-step (stated of the first evolve_wave, where an entry is unassigned
\* exactly when it still is as malloc left it)
C26_ScratchAssignedBeforeRead ==
    FirstTick => \A p \in ScratchReads : pre[p[1]][p[2]] # Undef

\* so it is where the first half-step writes every cell the second reads: on a
\* domain that fills the grid, and in wave_3d.c with TWOSPEEDS
C26_AssignedWhereAllUpdated ==
    (FirstTick /\ (AllInside \/ (prog = "wave_3d" /\ cfg.TWOSPEEDS))) =>
        \A p \in ScratchReads : pre[p[1]][p[2]] # Undef

\* the first evolve_wave has returned: its second half-step read an entry of
\* phi_tmp outside the mask that nothing had assigned, and the cell that needed
\* it holds no defined value
C26_UnassignedScratchRead ==
    /\ FirstTick /\ pc = "idle"
    /\ \E p \in ScratchReads :
           /\ p[1] = "phi_tmp" /\ xy_in[p[2]] = 0 /\ pre.phi_tmp[p[2]] = Undef
    /\ \E c \in Inside : phi[c] = Undef \/ psi[c] = Undef

----------------------------------------------------------------------------
(* the array indices of the stencils, on grids of every size from 2 x 2 *)

\* the grids the index check runs over
Grids == (2 .. NX) \X (2 .. NY)

\* wave_billiard.c evolve_wave: the cells of phi, psi, xy_in the body of (i, j) uses
wb_indices(nx, ny, i, j) ==
    { <<i, j>>, <<Plus(i, nx), j>>, <<Minus(i, nx), j>>, <<i, Plus(j, ny)>>,
      <<i, Minus(j, ny)>> }

\* schrodinger.c evolve_wave_half: the cells the body of (i, j) uses under policy b
sch_indices(b, nx, ny, i, j) ==
    LET ip == IF b = BC_PERIODIC THEN Plus(i, nx) ELSE PlusClamp(i, nx)
        im == IF b = BC_PERIODIC THEN Minus(i, nx) ELSE MinusClamp(i)
        jp == IF b = BC_PERIODIC THEN Plus(j, ny) ELSE PlusClamp(j, ny)
        jm == IF b = BC_PERIODIC THEN Minus(j, ny) ELSE MinusClamp(j)
        bulk == (i > 0) /\ (i < nx - 1) /\ (j > 0) /\ (j < ny - 1)
        inward == IF i = nx - 1 THEN <<i - 1, j>>
                  ELSE IF j = ny - 1 THEN <<i, j - 1>>
                  ELSE IF i = 0 THEN <<1, j>>
                  ELSE <<i, 1>>
    IN  { <<i, j>>, <<ip, j>>, <<im, j>>, <<i, jp>>, <<i, jm>> }
            \cup (IF b = BC_ABSORBING /\ ~bulk THEN { inward } ELSE {})

\* wave_3d.c evolve_wave_half: the flat indices the five loops and the corner
\* drive use for the cells of row i
w3d_bulk_indices(nx, ny, i, j) ==
    { i * ny + j, (i + 1) * ny + j, (i - 1) * ny + j, i * ny + j + 1, i * ny + j - 1 }

w3d_left_indices(b, osc, nx, ny, j) ==
    IF osc THEN { j }
    ELSE { j, ny + j, j + 1, j - 1 }
            \cup (IF b = BC_PERIODIC THEN { (nx - 1) * ny + j } ELSE {})

w3d_right_indices(b, nx, ny, j) ==
    { (nx - 1) * ny + j, (nx - 2) * ny + j, (nx - 1) * ny + j + 1, (nx - 1) * ny + j - 1 }
        \cup (IF b = BC_PERIODIC THEN { j } ELSE {})

w3d_top_indices(b, nx, ny, i) ==
    LET iplus == IF b = BC_PERIODIC THEN Plus(i, nx) ELSE PlusClamp(i, nx)
        iminus == IF b = BC_PERIODIC THEN Minus(i, nx) ELSE MinusClamp(i)
    IN  { i * ny + ny - 1, iplus * ny + ny - 1, iminus * ny + ny - 1, i * ny + ny - 2 }
            \cup (IF b \in {BC_PERIODIC, BC_VPER_HABS} THEN { i * ny } ELSE {})
            \cup (IF b = BC_VPER_HABS /\ i = 0 THEN { ny - 1, 1 * ny + ny - 1 } ELSE {})

w3d_bottom_indices(b, nx, ny, i) ==
    LET iplus == IF b = BC_PERIODIC THEN Plus(i, nx) ELSE PlusClamp(i, nx)
        iminus == IF b = BC_PERIODIC THEN Minus(i, nx) ELSE MinusClamp(i)
    IN  { i * ny, iplus * ny, iminus * ny, i * ny + 1 }
            \cup (IF b \in {BC_PERIODIC, BC_VPER_HABS} THEN { i * ny + ny - 1 } ELSE {})
            \cup (IF b = BC_VPER_HABS /\ i = 0 THEN { 0, ny } ELSE {})

\* whether the loop body of the flat cell k runs
w3d_visits(two, k, ny) == two \/ xy_in[<<k \div ny, k % ny>>] # 0

w3d_row_indices(b, two, osc, nx, ny, i) ==
    UNION { w3d_bulk_indices(nx, ny, i, j) :
              j \in { j \in 1 .. (ny - 2) : i >= 1 /\ i < nx - 1 /\ w3d_visits(two, i * ny + j, ny) } }
      \cup UNION { w3d_left_indices(b, osc, nx, ny, j) :
              j \in { j \in 1 .. (ny - 2) : i = 0 /\ (osc \/ w3d_visits(two, j, ny)) } }
      \cup UNION { w3d_right_indices(b, nx, ny, j) :
              j \in { j \in 1 .. (ny - 2) : i = nx - 1 /\ w3d_visits(two, (nx - 1) * ny + j, ny) } }
      \cup (IF w3d_visits(two, i * ny + ny - 1, ny) THEN w3d_top_indices(b, nx, ny, i) ELSE {})
      \cup (IF w3d_visits(two, i * ny, ny) THEN w3d_bottom_indices(b, nx, ny, i) ELSE {})
      \cup (IF two THEN {}
            ELSE { i * ny + j : j \in { j \in 0 .. (ny - 1) :
                                          j \in {0, ny - 1} \/ i > 0 \/ ~osc } })
      \cup (IF osc /\ i = 0 THEN { 0, ny - 1 } ELSE {})

\* one row of the loop of wave_billiard.c, its indices recorded
wb_index_row(i) ==
    /\ prog = "wave_billiard" /\ apc = "index" /\ i < cfg.NX /\ i \notin rows
    /\ rd' = rd \cup UNION { wb_indices(cfg.NX, cfg.NY, i, j) :
                               j \in { j \in 0 .. (cfg.NY - 1) : xy_in[<<i, j>>] # 0 } }
                \cup { <<i, j>> : j \in 0 .. (cfg.NY - 1) }
    /\ rows' = rows \cup {i}
    /\ UNCHANGED <<Config, Norm, Anim, phi, psi, phi_tmp, psi_tmp, time, pc, nsteps, pre,
                   wr, stale, nscale>>

\* one row of the loop of schrodinger.c, its indices recorded
sch_index_row(i) ==
    /\ prog = "schrodinger" /\ apc = "index" /\ i < cfg.NX /\ i \notin rows
    /\ rd' = rd \cup UNION { sch_indices(cfg.B_COND, cfg.NX, cfg.NY, i, j) :
                               j \in { j \in 0 .. (cfg.NY - 1) : xy_in[<<i, j>>] # 0 } }
                \cup { <<i, j>> : j \in 0 .. (cfg.NY - 1) }
    /\ rows' = rows \cup {i}
    /\ UNCHANGED <<Config, Norm, Anim, phi, psi, phi_tmp, psi_tmp, time, pc, nsteps, pre,
                   wr, stale, nscale>>

\* the cells of row i of wave_3d.c, their flat indices recorded
w3d_index_row(i) ==
    /\ prog = "wave_3d" /\ apc = "index" /\ i < cfg.NX /\ i \notin rows
    /\ rd' = rd \cup w3d_row_indices(cfg.B_COND, cfg.TWOSPEEDS, cfg.OSCILLATE_LEFT,
                                     cfg.NX, cfg.NY, i)
    /\ rows' = rows \cup {i}
    /\ UNCHANGED <<Config, Norm, Anim, phi, psi, phi_tmp, psi_tmp, time, pc, nsteps, pre,
                   wr, stale, nscale>>

\* the policies each program's index branches support
Supported(p) ==
    IF p = "wave_billiard" THEN {BC_PERIODIC}
    ELSE IF p = "schrodinger" THEN sch_handled
    ELSE {BC_DIRICHLET, BC_PERIODIC, BC_ABSORBING, BC_VPER_HABS}

InitIndex ==
    /\ prog \in {"wave_billiard", "schrodinger", "wave_3d"}
    /\ cfg \in { Cfg(Whole, Flags(b, two, osc, FALSE, FALSE)) @@ [NX |-> g[1], NY |-> g[2]] :
                   b \in Supported(prog), two \in {prog = "wave_3d", FALSE},
                   osc \in {prog = "wave_3d", FALSE}, g \in Grids }
    /\ apc = "index" /\ junk = 0
    /\ xy_in \in Masks \cup { Fill(0) }
    /\ phi = Fill(Zero) /\ psi = Fill(Zero)
    /\ phi_tmp = Fill(Undef) /\ psi_tmp = Fill(Undef)
    /\ tc = Fill(Undef) /\ tcc = Fill(Undef) /\ tgamma = Fill(Undef)
    /\ InitCommon

NextIndex ==
    \E i \in Rows : \/ wb_index_row(i)
                    \/ sch_index_row(i)
                    \/ w3d_index_row(i)

SpecIndex == InitIndex /\ [][NextIndex]_vars

\* C27: every index a stencil updater uses lies inside the grid, for every grid from
\* 2 x 2, every mask and every supported boundary policy: 0 <= i < NX and
\* 0 <= j < NY in wave_billiard.c and schrodinger.c, 0 <= k < NX*NY in wave_3d.c
C27_IndicesInGrid ==
    \A k \in rd :
        IF prog = "wave_3d" THEN 0 <= k /\ k < cfg.NX * cfg.NY
        ELSE 0 <= k[1] /\ k[1] < cfg.NX /\ 0 <= k[2] /\ k[2] < cfg.NY

\* the smallest grid of wave_3d.c swept whole under the mixed policy, both ends of
\* the flat array used
C27_Witness ==
    /\ prog = "wave_3d" /\ cfg.NX = 2 /\ cfg.NY = 2 /\ cfg.B_COND = BC_VPER_HABS
    /\ rows = {0, 1}
    /\ {0, cfg.NX * cfg.NY - 1} \subseteq rd

\* the same on the 2 x 2 grid of schrodinger.c with absorbing borders
C27_WitnessNested ==
    /\ prog = "schrodinger" /\ cfg.NX = 2 /\ cfg.NY = 2 /\ cfg.B_COND = BC_ABSORBING
    /\ rows = {0, 1}
    /\ {<<0, 0>>, <<1, 1>>} \subseteq rd

\* the rules of the absorbing policy of schrodinger.c and the cells each matches
AbsorbRules == <<"right", "upper", "left", "lower">>
Matches(r, c) ==
    CASE r = "right" -> c[1] = NX - 1
      [] r = "upper" -> c[2] = NY - 1
      [] r = "left" -> c[1] = 0
      [] r = "lower" -> c[2] = 0

\* the first rule of the priority order that matches a border cell
FirstMatch(c) ==
    AbsorbRules[CHOOSE k \in 1 .. 4 :
                    /\ Matches(AbsorbRules[k], c)
                    /\ \A m \in 1 .. (k - 1) : ~Matches(AbsorbRules[m], c)]

\* the neighbour a rule steps towards
Towards(r, c) ==
    CASE r = "right" -> <<c[1] - 1, c[2]>>
      [] r = "upper" -> <<c[1], c[2] - 1>>
      [] r = "left" -> <<1, c[2]>>
      [] r = "lower" -> <<c[1], 1>>

BorderPhi(r, c) ==
    Floor(RSub(InPhi[c], RMul(cfg.intstep1, RSub(InPsi[c], InPsi[Towards(r, c)]))))
BorderPsi(r, c) ==
    Floor(RAdd(InPsi[c], RMul(cfg.intstep1, RSub(InPhi[c], InPhi[Towards(r, c)]))))

\* a half-step of schrodinger.c under the absorbing policy has returned
AbsorbingHalfDone == prog = "schrodinger" /\ cfg.B_COND = BC_ABSORBING /\ StepDone

\* C28: in schrodinger.c under the absorbing policy a half-step assigns phi_out and
\* psi_out of every inside cell, and of no other cell, by one rule: the bulk rule
\* off the border of the grid, on it the first matching rule of the order right
\* (i = NX-1), upper (j = NY-1), left (i = 0), lower (j = 0), corners included
C28_AbsorbingPriority ==
    AbsorbingHalfDone =>
        /\ wr = { <<n, c>> : n \in {LastBufs.phi_out, LastBufs.psi_out}, c \in Inside }
        /\ \A c \in Inside \ Border : /\ OutPhi[c] = RotatePhi(InPhi, InPsi, c)
                                       /\ OutPsi[c] = RotatePsi(InPhi, InPsi, c)
        /\ \A c \in Inside \cap Border : /\ OutPhi[c] = BorderPhi(FirstMatch(c), c)
                                          /\ OutPsi[c] = BorderPsi(FirstMatch(c), c)

\* a half-step has returned with the corner (NX-1, NY-1) inside, where the right
\* rule and the upper rule both match and would give different values
C28_Witness ==
    /\ AbsorbingHalfDone /\ <<NX - 1, NY - 1>> \in Inside
    /\ Matches("right", <<NX - 1, NY - 1>>) /\ Matches("upper", <<NX - 1, NY - 1>>)
    /\ IsFin(OutPhi[<<NX - 1, NY - 1>>])
    /\ OutPhi[<<NX - 1, NY - 1>>] = BorderPhi("right", <<NX - 1, NY - 1>>)
    /\ BorderPhi("right", <<NX - 1, NY - 1>>) # BorderPhi("upper", <<NX - 1, NY - 1>>)

\* the time series holds one pair of values for every evolve_wave call that has returned
Logged == Len(series) = (IF pc = "idle" /\ ~SamplePending THEN nsteps ELSE nsteps - 1)

\* C29: in wave_3d.c with SAVE_TIME_SERIES the probe indices sample_left and
\* sample_right hold values inside the grid when phi is first read through them,
\* and one value per probe is appended after every evolve_wave call
C29_ProbesInGridAndLogged ==
    (prog = "wave_3d" /\ cfg.SAVE_TIME_SERIES) =>
        /\ nsteps > 0 => ProbeIndex \in 0 .. (NX * NY - 1)
        /\ apc # "crashed"
        /\ nsteps > 0 => Logged
        /\ \A k \in 1 .. Len(series) : IsFin(series[k][1]) /\ IsFin(series[k][2])

\* what does hold: while the process lives, every returned evolve_wave call has
\* been followed by one append to each file before the next call
C29_OnePairPerCall ==
    (prog = "wave_3d" /\ cfg.SAVE_TIME_SERIES /\ apc # "crashed" /\ nsteps > 0) => Logged

\* the first sampling read phi through indices nothing assigned, outside the array
C29_ProbeOutsideGrid ==
    /\ prog = "wave_3d" /\ cfg.SAVE_TIME_SERIES /\ nsteps = 1
    /\ junk = Wild /\ ProbeIndex \notin 0 .. (NX * NY - 1)
    /\ apc = "crashed" /\ series = <<>>

\* the counters of the frame loop: frame i has been drawn before its batch, the
\* batch has made at most NVID calls, and the calls made so far are NVID for every
\* finished frame plus those of the running batch
LoopCounts ==
    /\ frame <= LastFrame(prog) + 1 /\ batch <= cfg.NVID
    /\ apc = "evolve" => /\ frame <= LastFrame(prog)
                         /\ nsteps = frame * cfg.NVID + batch
                         /\ drawn = frame * cfg.NVID
    /\ apc \in {"scale", "draw"} => /\ frame <= LastFrame(prog)
                                    /\ nsteps = frame * cfg.NVID
    /\ (prog = "wave_3d" /\ pc = "idle") => time = 2 * nsteps
    /\ apc \in {"free", "returned"} => /\ frame = LastFrame(prog) + 1
                                       /\ nsteps = (LastFrame(prog) + 1) * cfg.NVID
                                       /\ drawn = LastFrame(prog) * cfg.NVID

\* steps one evolve_wave call has left, at most
CallLeft ==
    CASE pc = "half1" -> (NX + 4) + (NX - Cardinality(rows))
      [] pc = "edges1" -> NX + 4
      [] pc = "ret1" -> NX + 3
      [] pc = "half2" -> 1 + (NX - Cardinality(rows))
      [] pc = "edges2" -> 1
      [] pc = "evolve" -> NX - Cardinality(rows)
      [] OTHER -> 0
\* a bound on the steps of one call, and of one frame
CallSteps == 2 * NX + 5
FrameSteps == cfg.NVID * CallSteps + 3

\* steps animation() has left, at most
StepsLeft ==
    CASE apc \in {"returned", "crashed"} -> 0
      [] apc = "free" -> 1
      [] apc = "evolve" -> 2 + (LastFrame(prog) - frame) * FrameSteps
                             + (cfg.NVID - batch) * CallSteps + CallLeft
      [] apc = "draw" -> 2 + (LastFrame(prog) - frame) * FrameSteps + cfg.NVID * CallSteps + 1
      [] apc = "scale" -> 2 + (LastFrame(prog) - frame) * FrameSteps + cfg.NVID * CallSteps + 2
      [] apc = "firstdraw" -> 2 + LastFrame(prog) * FrameSteps + cfg.NVID * CallSteps + 3
      [] apc = "prescale" -> 2 + LastFrame(prog) * FrameSteps + cfg.NVID * CallSteps + 4

\* the variance of schrodinger.c has no rational root: a run the model does not follow
Unscalable ==
    /\ prog = "schrodinger" /\ cfg.SCALE /\ pc = "idle" /\ apc \in {"prescale", "scale"}
    /\ ~HasSqrt(sch_compute_variance(phi, psi, xy_in))

\* a statement of animation() or of the call it is in can be executed
CanStep ==
    \/ ENABLED (Draw(prog) \/ EndFrame(prog) \/ FreeAll(prog) \/ wb_evolve_wave
                  \/ sch_evolve_wave \/ w3d_evolve_wave \/ sch_second_half \/ w3d_second_half
                  \/ \E i \in Rows : sch_fault(i))
    \/ pc = "evolve" /\ \E i \in Rows : Ready(i, 0, NX)
    \/ prog = "schrodinger" /\ pc \in {"half1", "half2"}
          /\ \E i \in Rows : Ready(i, 0, NX) /\ ~sch_strays(i)
    \/ prog = "wave_3d" /\ pc \in {"half1", "half2"} /\ \E i \in BulkRows : Ready(i, 1, NX - 2)
    \/ pc \in {"edges1", "edges2"}
    \/ /\ prog \in {"wave_billiard", "schrodinger"} /\ pc = "idle" /\ cfg.SCALE
       /\ apc \in {"prescale", "scale"} /\ nscale < MaxScale /\ ~Unscalable

====
